---- MODULE Spec2Model ----
(***************************************************************************)
(* Verification model of mealpreplogic-mobile.                             *)
(*                                                                         *)
(*  - SpecSync   : the sync reconciler (lib/sync/sync.ts) over the local   *)
(*                 recipes table (lib/db/schema.ts), the remote recipe     *)
(*                 service (lib/sync/api.ts) and sync_state.               *)
(*  - SpecPlans  : the meal_plans table (lib/db/meal-plans) and the        *)
(*                 plan-selection flow of the plans screen.                *)
(*  - SpecSolver : MealPlanSolver.solve / _solveSingle (lib/solver/solver).*)
(*                                                                         *)
(* Timestamps are ISO-8601 strings produced by Date.toISOString(); they    *)
(* all have the same layout, so their string order is the order of the     *)
(* millisecond clock.  They are modelled by the clock value itself.        *)
(***************************************************************************)
EXTENDS Integers, Sequences, FiniteSets, TLC

VARIABLES
    \* ---- sync reconciler ------------------------------------------------
    clock,          \* the device clock (milliseconds), read by new Date()
    local,          \* recipes table: id -> row
    server,         \* remote recipe service: id -> recipe
    serverToken,    \* sync_state.server_token (TRUE = present)
    lastSyncAt,     \* sync_state.last_sync_at (NULL or a timestamp)
    prefs,          \* preferences.macro_targets of the local row id = 1
    serverPrefs,    \* preferences held by the server
    pc,             \* position of the running performSync
    lastSync,       \* performSync: const lastSync = syncState.lastSyncAt
    toPull,         \* performSync: server recipes not yet visited by the pull loop
    localChanges,   \* performSync: recipes not yet visited by the push loop
    result,         \* performSync: the SyncResult being built / returned
    touched,        \* ids this run inserted, overwrote or pushed successfully
    remoteCalls,    \* number of requests sent to the server by the current run
    runs,           \* number of performSync invocations so far
    envBudget,      \* remaining edits (local or remote) outside a sync run
    hist,           \* history of the sync runs; no guard and no program value reads it
    \* ---- meal_plans table ----------------------------------------------
    mealPlans,      \* meal_plans: id -> is_selected
    planPc,         \* position of handleSelectPlan / selectMealPlan
    planArg,        \* the id the running selectMealPlan was called with
    \* ---- solver --------------------------------------------------------
    sv,             \* the state of one MealPlanSolver.solve call
    \* ---- plan screen and shopping list -----------------------------------
    rr,             \* the plan shown on the plan screen and the last reroll
    sh,             \* the shopping list built from a plan
    \* ---- conflict resolution --------------------------------------------
    rc              \* the conflicts shown and the running resolveConflicts

syncVars == <<clock, local, server, serverToken, lastSyncAt, prefs, serverPrefs,
              pc, lastSync, toPull, localChanges, result, touched, remoteCalls,
              runs, envBudget, hist>>
planVars == <<mealPlans, planPc, planArg>>
solverVars == <<sv>>
utilVars == <<rr, sh, rc>>
vars == <<syncVars, planVars, solverVars, utilVars>>

----------------------------------------------------------------------------
(* Bounds *)
MaxClock == 3
MaxEnv == 1
MaxRuns == 2
MaxPlans == 4

(* Values *)
NULL == -1              \* SQL NULL / JS null in a timestamp column
UNDEF == -2             \* JS undefined for a timestamp property
NoImage == "null"       \* SQL NULL / JS null in image_url
Undefined == "undefined"
NumericIds == {"1", "2"}        \* ids assigned by the server (integers)
UuidIds == {"a-1"}              \* ids generated locally by uuid()
Names == {"n1", "n2"}
Images == {NoImage, "img"}
PrefVals == {"p1", "p2"}
EmptyPrefs == "{}"
Epoch == 0              \* "1970-01-01" sorts below every toISOString() value

----------------------------------------------------------------------------
(* The recipes table and its operations (lib/db/schema.ts).  A row keeps    *)
(* name (standing for the columns every write carries: name, category,     *)
(* macros, ingredients), image_url (standing for the nullable columns      *)
(* image_url, source_url, notion_page_id), updated_at and synced_at.       *)

Content == [name : Names, imageUrl : Images]

\* rowToRecipe: image_url ?? undefined, the other fields as stored.
rowToRecipe(id, row) ==
    [id |-> id, name |-> row.name,
     imageUrl |-> IF row.imageUrl = NoImage THEN Undefined ELSE row.imageUrl,
     updatedAt |-> row.updatedAt, syncedAt |-> row.syncedAt]

\* insertRecipe: created_at = updated_at = now, synced_at = recipe.syncedAt ?? null.
insertRecipe(tbl, recipe, now) ==
    [i \in DOMAIN tbl \cup {recipe.id} |->
        IF i = recipe.id
        THEN [name |-> recipe.name,
              imageUrl |-> IF recipe.imageUrl = Undefined THEN NoImage ELSE recipe.imageUrl,
              updatedAt |-> now,
              syncedAt |-> IF recipe.syncedAt = UNDEF THEN NULL ELSE recipe.syncedAt]
        ELSE tbl[i]]

\* updateRecipe: one SET clause per property that is not undefined, and
\* always updated_at = now; nothing is written when no property is given.
updateRecipe(tbl, id, updates, now) ==
    IF id \notin DOMAIN tbl
       \/ (updates.name = Undefined /\ updates.imageUrl = Undefined
           /\ updates.syncedAt = UNDEF)
    THEN tbl
    ELSE [tbl EXCEPT ![id] =
            [name |-> IF updates.name # Undefined THEN updates.name ELSE @.name,
             imageUrl |-> IF updates.imageUrl # Undefined THEN updates.imageUrl ELSE @.imageUrl,
             syncedAt |-> IF updates.syncedAt # UNDEF THEN updates.syncedAt ELSE @.syncedAt,
             updatedAt |-> now]]

\* getRecipesUpdatedSince: WHERE updated_at > ? AND (synced_at IS NULL OR
\* updated_at > synced_at).
getRecipesUpdatedSince(tbl, since) ==
    {id \in DOMAIN tbl :
        /\ tbl[id].updatedAt > since
        /\ (tbl[id].syncedAt = NULL \/ tbl[id].updatedAt > tbl[id].syncedAt)}

\* ... ORDER BY updated_at ASC: every listing of the ids in that order.
OrderedByUpdatedAt(tbl, ids) ==
    {q \in [1..Cardinality(ids) -> ids] :
        /\ \A i, j \in DOMAIN q : i # j => q[i] # q[j]
        /\ \A i, j \in DOMAIN q : i < j => tbl[q[i]].updatedAt <= tbl[q[j]].updatedAt}

----------------------------------------------------------------------------
(* The remote recipe service (lib/sync/api.ts). *)

\* The order in which GET /recipes/ lists the recipes is the server's choice.
fetchServerRecipes(srv) ==
    {q \in [1..Cardinality(DOMAIN srv) -> DOMAIN srv] :
        \A i, j \in DOMAIN q : i # j => q[i] # q[j]}

\* pushRecipeToServer: ids without a dash that parse as a number are server ids.
isServerRecipe(id) == id \in NumericIds

\* pushRecipeToServer: the request body (image_url: recipe.imageUrl ?? null).
pushBody(recipe) ==
    [name |-> recipe.name,
     imageUrl |-> IF recipe.imageUrl = Undefined THEN NoImage ELSE recipe.imageUrl]

\* The server after an accepted push: PUT /recipes/{id} replaces the recipe,
\* POST /recipes/ stores it under an id of the server's choosing.
ServerAfterPush(srv, recipe) ==
    IF isServerRecipe(recipe.id)
    THEN IF recipe.id \in DOMAIN srv
         THEN {[srv EXCEPT ![recipe.id] = pushBody(recipe)]}
         ELSE {}
    ELSE {[i \in DOMAIN srv \cup {n} |-> IF i = n THEN pushBody(recipe) ELSE srv[i]] :
            n \in NumericIds \ DOMAIN srv}

----------------------------------------------------------------------------
(* performSync (lib/sync/sync.ts). *)

\* normalizeServerRecipe: imageUrl: server.imageUrl || server.image_url is
\* undefined when the server holds no image; syncedAt: new Date().
normalizeServerRecipe(id, s, now) ==
    [id |-> id, name |-> s.name,
     imageUrl |-> IF s.imageUrl \in {NoImage, Undefined} THEN Undefined ELSE s.imageUrl,
     syncedAt |-> now]

IsConflictFlipped(localMatch) ==
    /\ localMatch.syncedAt # NULL
    /\ localMatch.updatedAt < localMatch.syncedAt

\* sync.ts:67-71: localMatch.syncedAt && localMatch.updatedAt &&
\* localMatch.updatedAt > localMatch.syncedAt
IsConflict(localMatch) ==
    /\ localMatch.syncedAt # NULL
    /\ localMatch.updatedAt > localMatch.syncedAt

HasTokenAlways(tok) == TRUE

\* sync.ts:40  if (!syncState?.serverToken)
HasToken(tok) == tok = TRUE

\* sync.ts:88  lastSync || "1970-01-01"
SinceOf(ls) == IF ls = NULL THEN Epoch ELSE ls

PlansAndSolverIdle == UNCHANGED <<planVars, solverVars, utilVars>>

EmptyResult == [pulled |-> 0, pushed |-> 0, conflicts |-> <<>>, error |-> "none"]
Quiescent == pc \in {"idle", "done"}

\* The history of the sync runs, kept beside the program's state:
\*   failed     ids whose latest push request failed and that were neither
\*              edited nor pushed successfully since;
\*   posted     <<local id, server id>> for every accepted POST /recipes/;
\*   settled    the latest performSync completed with no error and no
\*              conflicts, and nothing but the passing of time happened since;
\*   following  the running performSync started in a settled state.
NoHistory == [failed |-> {}, posted |-> {}, settled |-> FALSE, following |-> FALSE]
Unsettled == [hist EXCEPT !.settled = FALSE]
Ticks == {dt \in {0, 1} : clock + dt <= MaxClock}

\* sync.ts:39-42: without a token the call returns at once.
PerformSyncNotLoggedIn ==
    /\ Quiescent /\ runs < MaxRuns
    /\ ~HasToken(serverToken)
    /\ result' = [EmptyResult EXCEPT !.error = "Not logged in"]
    /\ pc' = "done"
    /\ runs' = runs + 1
    /\ remoteCalls' = 0
    /\ touched' = {}
    /\ hist' = [hist EXCEPT !.settled = FALSE, !.following = FALSE]
    /\ UNCHANGED <<clock, local, server, serverToken, lastSyncAt, prefs, serverPrefs,
                   lastSync, toPull, localChanges, envBudget>>
    /\ PlansAndSolverIdle

\* sync.ts:44-53: read lastSyncAt, fetch the server recipes; a failed fetch is
\* caught by the outer try (sync.ts:121-123).
StartSync ==
    /\ Quiescent /\ runs < MaxRuns
    /\ HasToken(serverToken)
    /\ runs' = runs + 1
    /\ lastSync' = lastSyncAt
    /\ remoteCalls' = 1
    /\ touched' = {}
    /\ localChanges' = <<>>
    /\ hist' = [hist EXCEPT !.settled = FALSE, !.following = hist.settled]
    /\ \/ /\ \E q \in fetchServerRecipes(server) :
                toPull' = [i \in DOMAIN q |-> [id |-> q[i], data |-> server[q[i]]]]
          /\ result' = EmptyResult
          /\ pc' = "pull"
       \/ /\ toPull' = <<>>
          /\ result' = [EmptyResult EXCEPT !.error = "Failed to fetch recipes"]
          /\ pc' = "done"
    /\ UNCHANGED <<clock, local, server, serverToken, lastSyncAt, prefs, serverPrefs,
                   envBudget>>
    /\ PlansAndSolverIdle

\* sync.ts:55-83: one iteration of the pull loop.  The clock is read by
\* normalizeServerRecipe (syncedAt) and, after the awaited lookup, again by
\* insertRecipe / updateRecipe (now).
PullOne ==
    /\ pc = "pull" /\ toPull # <<>>
    /\ \E dt \in Ticks :
        LET s == Head(toPull)
            normalized == normalizeServerRecipe(s.id, s.data, clock)
            now == clock + dt
        IN  /\ clock' = now
            /\ IF s.id \notin DOMAIN local
               THEN /\ local' = insertRecipe(local, normalized, now)
                    /\ result' = [result EXCEPT !.pulled = @ + 1]
                    /\ touched' = touched \cup {s.id}
               ELSE IF IsConflict(rowToRecipe(s.id, local[s.id]))
               THEN /\ result' = [result EXCEPT !.conflicts =
                                    Append(@, [localVersion |-> rowToRecipe(s.id, local[s.id]),
                                               serverVersion |-> normalized])]
                    /\ UNCHANGED <<local, touched>>
               ELSE /\ local' = updateRecipe(local, s.id, normalized, now)
                    /\ result' = [result EXCEPT !.pulled = @ + 1]
                    /\ touched' = touched \cup {s.id}
    /\ toPull' = Tail(toPull)
    /\ UNCHANGED <<server, serverToken, lastSyncAt, prefs, serverPrefs, pc, lastSync,
                   localChanges, remoteCalls, runs, envBudget, hist>>
    /\ PlansAndSolverIdle

\* A pull-phase step that throws, with lastSyncAt written all the same.
PullThrowStamped ==
    /\ pc = "pull" /\ toPull # <<>>
    /\ result' = [result EXCEPT !.error = "Sync failed"]
    /\ pc' = "done"
    /\ toPull' = <<>>
    /\ lastSyncAt' = clock
    /\ UNCHANGED <<clock, local, server, serverToken, prefs, serverPrefs,
                   lastSync, localChanges, touched, remoteCalls, runs, envBudget, hist>>
    /\ PlansAndSolverIdle

\* sync.ts:121-123: a pull-phase step that throws ends the run with an error.
PullThrow ==
    /\ pc = "pull" /\ toPull # <<>>
    /\ result' = [result EXCEPT !.error = "Sync failed"]
    /\ pc' = "done"
    /\ toPull' = <<>>
    /\ UNCHANGED <<clock, local, server, serverToken, lastSyncAt, prefs, serverPrefs,
                   lastSync, localChanges, touched, remoteCalls, runs, envBudget, hist>>
    /\ PlansAndSolverIdle

\* sync.ts:86-89: the push phase selects its recipes once, after the pull loop.
StartPush ==
    /\ pc = "pull" /\ toPull = <<>>
    /\ \E q \in OrderedByUpdatedAt(local, getRecipesUpdatedSince(local, SinceOf(lastSync))) :
          localChanges' = [i \in DOMAIN q |-> rowToRecipe(q[i], local[q[i]])]
    /\ pc' = "push"
    /\ UNCHANGED <<clock, local, server, serverToken, lastSyncAt, prefs, serverPrefs,
                   lastSync, toPull, result, touched, remoteCalls, runs, envBudget, hist>>
    /\ PlansAndSolverIdle

\* The history after an accepted and after a failed push of the recipe id;
\* created holds the server id a POST stored the recipe under.
Accepted(id, created) ==
    [hist EXCEPT !.failed = @ \ {id},
                 !.posted = @ \cup {<<id, n>> : n \in created}]
Refused(id) == [hist EXCEPT !.failed = @ \cup {id}]

\* The push loop leaving the batch at the first failed push.
PushOneAbortOnFailure ==
    /\ pc = "push" /\ localChanges # <<>>
    /\ LET recipe == Head(localChanges)
       IN  \/ \E srv \in ServerAfterPush(server, recipe), dt \in Ticks :
                /\ server' = srv
                /\ local' = updateRecipe(local, recipe.id,
                                [name |-> Undefined, imageUrl |-> Undefined,
                                 syncedAt |-> clock], clock + dt)
                /\ clock' = clock + dt
                /\ result' = [result EXCEPT !.pushed = @ + 1]
                /\ touched' = touched \cup {recipe.id}
                /\ hist' = Accepted(recipe.id, DOMAIN srv \ DOMAIN server)
                /\ localChanges' = Tail(localChanges)
           \/ /\ UNCHANGED <<server, local, clock, result, touched>>
              /\ hist' = Refused(recipe.id)
              /\ localChanges' = <<>>
    /\ remoteCalls' = remoteCalls + 1
    /\ UNCHANGED <<serverToken, lastSyncAt, prefs, serverPrefs, pc, lastSync, toPull,
                   runs, envBudget>>
    /\ PlansAndSolverIdle

\* sync.ts:91-103: one iteration of the push loop.  syncedAt is read from the
\* clock by the caller, updated_at by updateRecipe.
PushOne ==
    /\ pc = "push" /\ localChanges # <<>>
    /\ LET recipe == Head(localChanges)
       IN  \/ \E srv \in ServerAfterPush(server, recipe), dt \in Ticks :
                /\ server' = srv
                /\ local' = updateRecipe(local, recipe.id,
                                [name |-> Undefined, imageUrl |-> Undefined,
                                 syncedAt |-> clock], clock + dt)
                /\ clock' = clock + dt
                /\ result' = [result EXCEPT !.pushed = @ + 1]
                /\ touched' = touched \cup {recipe.id}
                /\ hist' = Accepted(recipe.id, DOMAIN srv \ DOMAIN server)
           \/ \* the request failed: caught, logged, next recipe
              /\ UNCHANGED <<server, local, clock, result, touched>>
              /\ hist' = Refused(recipe.id)
    /\ localChanges' = Tail(localChanges)
    /\ remoteCalls' = remoteCalls + 1
    /\ UNCHANGED <<serverToken, lastSyncAt, prefs, serverPrefs, pc, lastSync, toPull,
                   runs, envBudget>>
    /\ PlansAndSolverIdle

\* sync.ts:105-120: preferences in both directions (failures ignored), then
\* lastSyncAt = now.
SyncPrefs ==
    /\ pc = "push" /\ localChanges = <<>>
    /\ \/ \* fetchServerPreferences failed
          /\ UNCHANGED <<prefs, serverPrefs>>
          /\ remoteCalls' = remoteCalls + 1
       \/ /\ prefs' = IF serverPrefs # EmptyPrefs THEN serverPrefs ELSE prefs
          /\ \/ serverPrefs' = prefs'
             \/ UNCHANGED serverPrefs       \* pushPreferences failed
          /\ remoteCalls' = remoteCalls + 2
    /\ lastSyncAt' = clock
    /\ hist' = [hist EXCEPT !.settled = (result.error = "none" /\ result.conflicts = <<>>)]
    /\ pc' = "done"
    /\ UNCHANGED <<clock, local, server, serverToken, lastSync, toPull, localChanges,
                   result, touched, runs, envBudget>>
    /\ PlansAndSolverIdle

----------------------------------------------------------------------------
(* What happens between sync runs. *)

\* Time passes between two operations.
Tick ==
    /\ Quiescent
    /\ clock < MaxClock
    /\ clock' = clock + 1
    /\ UNCHANGED <<local, server, serverToken, lastSyncAt, prefs, serverPrefs, pc,
                   lastSync, toPull, localChanges, result, touched, remoteCalls,
                   runs, envBudget, hist>>
    /\ PlansAndSolverIdle

\* The edit screen: handleSave -> updateRecipe(db, id, updates), at a later
\* millisecond than the operation before it.
EditLocal ==
    /\ Quiescent /\ envBudget > 0 /\ clock < MaxClock
    /\ \E id \in DOMAIN local, n \in Names :
          /\ n # local[id].name
          /\ local' = updateRecipe(local, id,
                        [name |-> n, imageUrl |-> Undefined, syncedAt |-> UNDEF], clock + 1)
          /\ hist' = [hist EXCEPT !.settled = FALSE, !.failed = @ \ {id}]
    /\ clock' = clock + 1
    /\ envBudget' = envBudget - 1
    /\ pc' = "idle"
    /\ UNCHANGED <<server, serverToken, lastSyncAt, prefs, serverPrefs,
                   lastSync, toPull, localChanges, result, touched, remoteCalls, runs>>
    /\ PlansAndSolverIdle

\* The add-recipe screen: saveRecipe -> insertRecipe with a fresh uuid().
CreateLocal ==
    /\ Quiescent /\ envBudget > 0 /\ clock < MaxClock
    /\ \E id \in UuidIds \ DOMAIN local, c \in Content :
          local' = insertRecipe(local,
                      [id |-> id, name |-> c.name, imageUrl |-> c.imageUrl,
                       syncedAt |-> UNDEF], clock + 1)
    /\ clock' = clock + 1
    /\ envBudget' = envBudget - 1
    /\ pc' = "idle"
    /\ hist' = Unsettled
    /\ UNCHANGED <<server, serverToken, lastSyncAt, prefs, serverPrefs,
                   lastSync, toPull, localChanges, result, touched, remoteCalls, runs>>
    /\ PlansAndSolverIdle

\* The recipe is created or changed on the server by another client.
ServerChange ==
    /\ Quiescent /\ envBudget > 0
    /\ \E id \in NumericIds, c \in Content :
          /\ id \in DOMAIN server => server[id] # c
          /\ server' = [i \in DOMAIN server \cup {id} |-> IF i = id THEN c ELSE server[i]]
    /\ envBudget' = envBudget - 1
    /\ pc' = "idle"
    /\ hist' = Unsettled
    /\ UNCHANGED <<clock, local, serverToken, lastSyncAt, prefs, serverPrefs,
                   lastSync, toPull, localChanges, result, touched, remoteCalls, runs>>
    /\ PlansAndSolverIdle

\* Sign-up / log-in: saveSyncState(db, {serverToken, email}).
Login ==
    /\ Quiescent /\ envBudget > 0 /\ ~serverToken
    /\ serverToken' = TRUE
    /\ envBudget' = envBudget - 1
    /\ pc' = "idle"
    /\ hist' = Unsettled
    /\ UNCHANGED <<clock, local, server, lastSyncAt, prefs, serverPrefs,
                   lastSync, toPull, localChanges, result, touched, remoteCalls, runs>>
    /\ PlansAndSolverIdle

\* Sign-out: clearSyncState sets every sync_state column to NULL.
Logout ==
    /\ Quiescent /\ envBudget > 0 /\ serverToken
    /\ serverToken' = FALSE
    /\ lastSyncAt' = NULL
    /\ envBudget' = envBudget - 1
    /\ pc' = "idle"
    /\ hist' = Unsettled
    /\ UNCHANGED <<clock, local, server, prefs, serverPrefs,
                   lastSync, toPull, localChanges, result, touched, remoteCalls, runs>>
    /\ PlansAndSolverIdle

EmptyTable == [i \in {} |-> [name |-> "n1"]]

InitSync ==
    /\ clock = 1
    /\ local = EmptyTable
    /\ server \in {EmptyTable, [i \in {"1"} |-> [name |-> "n1", imageUrl |-> "img"]]}
    /\ serverToken \in BOOLEAN
    /\ lastSyncAt = NULL
    /\ prefs = "p1"
    /\ serverPrefs \in {EmptyPrefs, "p2"}
    /\ pc = "idle"
    /\ lastSync = NULL
    /\ toPull = <<>>
    /\ localChanges = <<>>
    /\ result = EmptyResult
    /\ touched = {}
    /\ remoteCalls = 0
    /\ runs = 0
    /\ envBudget = MaxEnv
    /\ hist = NoHistory
    /\ mealPlans = <<>> /\ planPc = "idle" /\ planArg = 0
    /\ sv = [pc |-> "off"] /\ rr = [pc |-> "off"] /\ sh = [pc |-> "off"] /\ rc = [pc |-> "off"]

SyncNext ==
    \/ PerformSyncNotLoggedIn \/ StartSync \/ PullOne \/ PullThrow \/ StartPush
    \/ PushOne \/ SyncPrefs \/ Tick \/ EditLocal \/ CreateLocal \/ ServerChange
    \/ Login \/ Logout

SpecSync == InitSync /\ [][SyncNext]_vars

----------------------------------------------------------------------------
(* resolveConflicts (lib/sync/sync.ts) called by handleResolveConflicts of   *)
(* the settings screen with the conflicts the last performSync returned.     *)

ResolveIdle ==
    UNCHANGED <<lastSyncAt, prefs, serverPrefs, pc, lastSync, toPull, localChanges,
                result, touched, remoteCalls, runs, envBudget, hist, planVars,
                solverVars,
                rr, sh>>

NoStep == [kind |-> "none", id |-> "", syncedAt |-> NULL]

\* index.tsx:151  if (!syncState?.serverToken) return
HandleResolveNotLoggedIn ==
    /\ rc.pc = "conflicts"
    /\ ~HasToken(serverToken)
    /\ rc' = [rc EXCEPT !.pc = "returned"]
    /\ UNCHANGED <<clock, local, server, serverToken>>
    /\ ResolveIdle

\* index.tsx:154-161: every conflict with the side the user keeps
HandleResolveConflicts ==
    /\ rc.pc = "conflicts"
    /\ HasToken(serverToken)
    /\ \E keep \in [DOMAIN rc.conflicts -> {"local", "server"}] :
          rc' = [rc EXCEPT !.pc = "resolving",
                           !.resolutions = [i \in DOMAIN rc.conflicts |->
                                               [conflict |-> rc.conflicts[i],
                                                keep |-> keep[i]]]]
    /\ UNCHANGED <<clock, local, server, serverToken>>
    /\ ResolveIdle

\* sync.ts:149-154: keep === "server".  syncedAt is read from the clock by
\* the caller, updated_at by updateRecipe.
ResolveKeepServer ==
    /\ rc.pc = "resolving" /\ rc.resolutions # <<>>
    /\ Head(rc.resolutions).keep = "server"
    /\ \E dt \in Ticks :
        LET conflict == Head(rc.resolutions).conflict
            id == conflict.localVersion.id
            updates == [normalizeServerRecipe(id, conflict.serverVersion, clock)
                            EXCEPT !.syncedAt = clock]
        IN  /\ local' = updateRecipe(local, id, updates, clock + dt)
            /\ clock' = clock + dt
            /\ rc' = [rc EXCEPT !.resolutions = Tail(@),
                                !.last = [kind |-> "server", id |-> id, syncedAt |-> clock]]
    /\ UNCHANGED <<server, serverToken>>
    /\ ResolveIdle

\* sync.ts:155-161: keep === "local" and the push is accepted
ResolveKeepLocal ==
    /\ rc.pc = "resolving" /\ rc.resolutions # <<>>
    /\ Head(rc.resolutions).keep = "local"
    /\ \E dt \in Ticks :
        LET localVersion == Head(rc.resolutions).conflict.localVersion
        IN  /\ \E srv \in ServerAfterPush(server, localVersion) : server' = srv
            /\ local' = updateRecipe(local, localVersion.id,
                            [name |-> Undefined, imageUrl |-> Undefined,
                             syncedAt |-> clock], clock + dt)
            /\ clock' = clock + dt
            /\ rc' = [rc EXCEPT !.resolutions = Tail(@),
                                !.last = [kind |-> "pushed", id |-> localVersion.id,
                                          syncedAt |-> clock]]
    /\ UNCHANGED serverToken
    /\ ResolveIdle

\* sync.ts:162-164: the push failed: caught, logged, next resolution
ResolveKeepLocalFailed ==
    /\ rc.pc = "resolving" /\ rc.resolutions # <<>>
    /\ Head(rc.resolutions).keep = "local"
    /\ rc' = [rc EXCEPT !.resolutions = Tail(@),
                        !.last = [kind |-> "failed",
                                  id |-> Head(rc.resolutions).conflict.localVersion.id,
                                  syncedAt |-> NULL]]
    /\ UNCHANGED <<clock, local, server, serverToken>>
    /\ ResolveIdle

\* index.tsx:162  setConflicts([])
ResolveDone ==
    /\ rc.pc = "resolving" /\ rc.resolutions = <<>>
    /\ rc' = [rc EXCEPT !.pc = "resolved", !.conflicts = <<>>]
    /\ UNCHANGED <<clock, local, server, serverToken>>
    /\ ResolveIdle

\* The rows and the server recipes of the ids in conflict: a row pulled at
\* time 1 and edited at time 2 (updated_at > synced_at), and the conflicts as
\* the pull loop records them (sync.ts:66-76).
ConflictIdLists == {<<"1">>, <<"2">>, <<"1", "2">>, <<"2", "1">>}

InitResolve ==
    /\ clock = 2
    /\ serverToken \in BOOLEAN
    /\ \E ids \in ConflictIdLists :
        \E rows \in [{ids[i] : i \in DOMAIN ids} -> Content],
           recipes \in [{ids[i] : i \in DOMAIN ids} -> Content] :
            /\ local = [id \in DOMAIN rows |->
                           [name |-> rows[id].name, imageUrl |-> rows[id].imageUrl,
                            updatedAt |-> 2, syncedAt |-> 1]]
            /\ server = recipes
            /\ rc = [pc |-> "conflicts",
                     conflicts |-> [i \in DOMAIN ids |->
                         [localVersion |-> rowToRecipe(ids[i], local[ids[i]]),
                          serverVersion |-> normalizeServerRecipe(ids[i], server[ids[i]], 2)]],
                     resolutions |-> <<>>,
                     last |-> NoStep]
    /\ lastSyncAt = 2 /\ prefs = "p1" /\ serverPrefs = EmptyPrefs
    /\ pc = "done" /\ lastSync = NULL /\ toPull = <<>> /\ localChanges = <<>>
    /\ result = EmptyResult /\ touched = {} /\ remoteCalls = 0 /\ runs = 0
    /\ envBudget = 0 /\ hist = NoHistory
    /\ mealPlans = <<>> /\ planPc = "idle" /\ planArg = 0
    /\ sv = [pc |-> "off"] /\ rr = [pc |-> "off"] /\ sh = [pc |-> "off"]

ResolveNext ==
    \/ HandleResolveNotLoggedIn \/ HandleResolveConflicts \/ ResolveKeepServer
    \/ ResolveKeepLocal \/ ResolveKeepLocalFailed \/ ResolveDone

SpecResolve == InitResolve /\ [][ResolveNext]_vars

\* the content of a server version, as a row stores it
ServerContent(v) ==
    [name |-> v.name, imageUrl |-> IF v.imageUrl = Undefined THEN NoImage ELSE v.imageUrl]
RowContent(row) == [name |-> row.name, imageUrl |-> row.imageUrl]
ResolveStep ==
    rc.pc = "resolving" /\ rc.resolutions # <<>> /\ rc'.resolutions = Tail(rc.resolutions)

\* keep = "server": the content of the local row equals the server version
KeepServerContent ==
    rc'.last.kind = "server"
        => RowContent(local'[rc'.last.id])
               = ServerContent(Head(rc.resolutions).conflict.serverVersion)
\* keep = "local": the local version is upserted to the server
KeepLocalUpserts ==
    rc'.last.kind = "pushed"
        => /\ rc'.last.id \in DOMAIN server'
           /\ server'[rc'.last.id] = pushBody(Head(rc.resolutions).conflict.localVersion)
\* success: synced_at = now and the row no longer counts as modified
StampedAsSynced ==
    rc'.last.kind \in {"server", "pushed"}
        => /\ local'[rc'.last.id].syncedAt = rc'.last.syncedAt
           /\ local'[rc'.last.id].updatedAt <= local'[rc'.last.id].syncedAt
\* a failed push leaves synced_at alone and the loop goes on
FailedPushSkipped ==
    rc'.last.kind = "failed"
        => /\ local'[rc'.last.id].syncedAt = local[rc'.last.id].syncedAt
           /\ rc'.pc = "resolving"

\* C19: for every resolution, keep = "server" makes the content of the local
\* row equal to the server version, keep = "local" upserts the local version
\* to the server, in both cases the row is stamped synced_at = now and no
\* longer counts as modified (updated_at <= synced_at); a failed push leaves
\* synced_at unchanged and the remaining resolutions are still processed.
C19_ResolveConflicts ==
    [][ResolveStep => /\ KeepServerContent
                      /\ KeepLocalUpserts
                      /\ StampedAsSynced
                      /\ FailedPushSkipped]_vars

----------------------------------------------------------------------------
(* The meal_plans table (lib/db/meal-plans) and the plan-selection flow of   *)
(* the plans screen (handleSelectPlan).  A row keeps is_selected.           *)

PlanIds == 1..MaxPlans          \* the values uuid() can return
SyncIdle == UNCHANGED <<syncVars, solverVars, utilVars>>

\* insertMealPlan: INSERT ... is_selected = plan.selected ? 1 : 0.
insertMealPlan(tbl, id, selected) ==
    [i \in DOMAIN tbl \cup {id} |->
        IF i = id THEN [isSelected |-> IF selected THEN 1 ELSE 0] ELSE tbl[i]]

\* selectMealPlan, first statement: UPDATE meal_plans SET is_selected = 0.
clearSelected(tbl) == [i \in DOMAIN tbl |-> [isSelected |-> 0]]

\* selectMealPlan, second statement: UPDATE ... SET is_selected = 1 WHERE id = ?.
setSelected(tbl, id) ==
    [i \in DOMAIN tbl |-> IF i = id THEN [isSelected |-> 1] ELSE tbl[i]]

\* deleteMealPlan: DELETE FROM meal_plans WHERE id = ?.
deleteMealPlan(tbl, id) == [i \in DOMAIN tbl \ {id} |-> tbl[i]]

\* handleSelectPlan, step 1: await insertMealPlan(db, {..., selected: true}).
HandleSelectPlanInsert ==
    /\ planPc = "idle"
    /\ \E id \in PlanIds \ DOMAIN mealPlans :
          /\ mealPlans' = insertMealPlan(mealPlans, id, TRUE)
          /\ planArg' = id
    /\ planPc' = "inserted"
    /\ SyncIdle

\* handleSelectPlan, step 2: selectMealPlan(db, insertedId) runs its first UPDATE.
HandleSelectPlanSelect ==
    /\ planPc = "inserted"
    /\ mealPlans' = clearSelected(mealPlans)
    /\ planPc' = "clearing"
    /\ UNCHANGED planArg
    /\ SyncIdle

\* selectMealPlan(db, id) called on its own runs its first UPDATE.
SelectMealPlanBegin ==
    /\ planPc = "idle"
    /\ \E id \in PlanIds : planArg' = id
    /\ mealPlans' = clearSelected(mealPlans)
    /\ planPc' = "clearing"
    /\ SyncIdle

\* selectMealPlan runs its second UPDATE and returns.
SelectMealPlanEnd ==
    /\ planPc = "clearing"
    /\ mealPlans' = setSelected(mealPlans, planArg)
    /\ planPc' = "idle"
    /\ UNCHANGED planArg
    /\ SyncIdle

DeleteMealPlan ==
    /\ planPc = "idle"
    /\ \E id \in DOMAIN mealPlans : mealPlans' = deleteMealPlan(mealPlans, id)
    /\ UNCHANGED <<planPc, planArg>>
    /\ SyncIdle

InitPlans ==
    /\ mealPlans = <<>>
    /\ planPc = "idle"
    /\ planArg = 0
    /\ clock = 1 /\ local = EmptyTable /\ server = EmptyTable /\ serverToken = FALSE
    /\ lastSyncAt = NULL /\ prefs = "p1" /\ serverPrefs = EmptyPrefs /\ pc = "idle"
    /\ lastSync = NULL /\ toPull = <<>> /\ localChanges = <<>> /\ result = EmptyResult
    /\ touched = {} /\ remoteCalls = 0 /\ runs = 0 /\ envBudget = 0 /\ hist = NoHistory
    /\ sv = [pc |-> "off"] /\ rr = [pc |-> "off"] /\ sh = [pc |-> "off"] /\ rc = [pc |-> "off"]

PlansNext ==
    \/ HandleSelectPlanInsert \/ HandleSelectPlanSelect \/ SelectMealPlanBegin
    \/ SelectMealPlanEnd \/ DeleteMealPlan

SpecPlans == InitPlans /\ [][PlansNext]_vars

SelectedPlans == {id \in DOMAIN mealPlans : mealPlans[id].isSelected = 1}

\* C6: in every persisted state at most one meal_plans row has is_selected = 1,
\* and when selectMealPlan(id) completes the row with that id (if it exists) is
\* the only selected row.
C6_AtMostOneSelected ==
    [][/\ Cardinality(SelectedPlans') <= 1
       /\ (planPc = "clearing" /\ planPc' = "idle")
            => SelectedPlans' = {planArg} \cap DOMAIN mealPlans]_vars

----------------------------------------------------------------------------
(* Claims about the sync reconciler, checked under SpecSync. *)

\* A step of the pull loop that visits the server recipe Head(toPull).
PullStep == pc = "pull" /\ toPull # <<>> /\ pc' = "pull" /\ toPull' = Tail(toPull)
ContentOf(row) == [name |-> row.name, imageUrl |-> row.imageUrl]

\* C1: in the pull phase, a server recipe whose id is that of a local recipe with
\* updated_at > synced_at adds the conflict {local, server} to result.conflicts
\* and leaves the local row as it was.
C1_ConflictKeepsLocal ==
    [][(/\ PullStep
        /\ Head(toPull).id \in DOMAIN local
        /\ local[Head(toPull).id].syncedAt # NULL
        /\ local[Head(toPull).id].updatedAt > local[Head(toPull).id].syncedAt)
       => LET id == Head(toPull).id
              c == result'.conflicts[Len(result'.conflicts)]
          IN  /\ Len(result'.conflicts) = Len(result.conflicts) + 1
              /\ SubSeq(result'.conflicts, 1, Len(result.conflicts)) = result.conflicts
              /\ c.localVersion.id = id
              /\ c.localVersion.name = local[id].name
              /\ c.localVersion.updatedAt = local[id].updatedAt
              /\ c.serverVersion.id = id
              /\ c.serverVersion.name = Head(toPull).data.name
              /\ local' = local
              /\ result'.pulled = result.pulled]_vars

\* A conflict was reported for a recipe whose server copy has another name, and
\* the local row still has its own name.
C1_Witness ==
    \E i \in DOMAIN result.conflicts :
        LET c == result.conflicts[i]
        IN  /\ c.localVersion.id \in DOMAIN local
            /\ c.serverVersion.name # c.localVersion.name
            /\ local[c.localVersion.id].name = c.localVersion.name

\* C2: in the pull phase, a server recipe whose id is that of a local recipe with
\* updated_at <= synced_at emits no conflict, replaces the content of the local
\* row by the server version and increments result.pulled.
C2_UnmodifiedOverwritten ==
    [][(/\ PullStep
        /\ Head(toPull).id \in DOMAIN local
        /\ local[Head(toPull).id].syncedAt # NULL
        /\ local[Head(toPull).id].updatedAt <= local[Head(toPull).id].syncedAt)
       => /\ result'.conflicts = result.conflicts
          /\ result'.pulled = result.pulled + 1
          /\ ContentOf(local'[Head(toPull).id]) = Head(toPull).data]_vars

\* C3: when performSync completes without error, every recipe the run inserted,
\* overwrote or pushed has synced_at non-null and synced_at >= updated_at.
C3_SyncedNotBeforeUpdated ==
    (pc = "done" /\ result.error = "none")
    => \A id \in touched :
          /\ id \in DOMAIN local
          /\ local[id].syncedAt # NULL
          /\ local[id].syncedAt >= local[id].updatedAt

\* C4: the push phase selects exactly the local recipes with
\* updated_at > coalesce(synced_at, epoch) at the moment it starts, each once.
C4_PushSelectsAllModified ==
    [][(pc = "pull" /\ pc' = "push")
       => /\ {localChanges'[i].id : i \in DOMAIN localChanges'}
                = {id \in DOMAIN local :
                     local[id].updatedAt >
                        (IF local[id].syncedAt = NULL THEN Epoch ELSE local[id].syncedAt)}
          /\ \A i, j \in DOMAIN localChanges' :
                i # j => localChanges'[i].id # localChanges'[j].id]_vars

\* C5: performSync invoked without a serverToken returns {pulled: 0, pushed: 0,
\* conflicts: [], error: "Not logged in"}, sends no request and leaves the
\* recipes, the preferences and lastSyncAt unchanged.
C5_NotLoggedIn ==
    [][(Quiescent /\ runs' = runs + 1 /\ serverToken # TRUE)
       => /\ pc' = "done"
          /\ result' = [pulled |-> 0, pushed |-> 0, conflicts |-> <<>>,
                        error |-> "Not logged in"]
          /\ remoteCalls' = 0
          /\ local' = local
          /\ server' = server
          /\ prefs' = prefs /\ serverPrefs' = serverPrefs
          /\ lastSyncAt' = lastSyncAt]_vars

\* performSync has returned "Not logged in" while the recipes table is not empty.
C5_Witness ==
    /\ pc = "done" /\ result.error = "Not logged in"
    /\ serverToken = FALSE
    /\ DOMAIN local # {}

\* A step of a performSync run that holds a token: its start, or a step of its
\* pull or push phase.
RunStep == pc \in {"pull", "push"} \/ (Quiescent /\ runs' = runs + 1 /\ HasToken(serverToken))

\* C23: performSync writes lastSyncAt only when the run reaches its end
\* without a fatal error: if the fetch of the server recipes or a pull-phase
\* step throws, result.error is set and lastSyncAt keeps its value; failed
\* pushes of single recipes and a failed preferences step leave result.error
\* unset and do not prevent lastSyncAt from being written.
C23_LastSyncAtOnSuccess ==
    [][RunStep
       => /\ lastSyncAt' # lastSyncAt
             => (pc = "push" /\ pc' = "done" /\ result'.error = "none")
          /\ (pc' = "done" /\ result'.error # "none") => lastSyncAt' = lastSyncAt
          /\ (pc # "push" /\ pc' = "done") => result'.error # "none"
          /\ pc = "push" => result'.error = "none"
          /\ (pc = "push" /\ pc' = "done") => lastSyncAt' = clock']_vars

\* A run has ended without error although none of its pushes succeeded (the
\* fetch, at least one failed push and the preferences requests were sent),
\* and lastSyncAt is the time of its end.
C23_Witness ==
    /\ pc = "done" /\ result.error = "none"
    /\ result.pushed = 0 /\ remoteCalls >= 4
    /\ lastSyncAt = clock

\* A step of the push loop: a request for the recipe Head(localChanges).
PushStep == pc = "push" /\ localChanges # <<>>

\* C24: the push batch continues on failure: if the push of one selected
\* recipe fails, every other selected recipe is still attempted in the same
\* run, result.pushed is the number of recipes whose push succeeded, and the
\* synced_at of the failed recipe is left unchanged.
C24_PushBatchContinues ==
    [][(PushStep
        => LET recipe == Head(localChanges)
           IN  /\ pc' = "push" /\ localChanges' = Tail(localChanges)
               /\ remoteCalls' = remoteCalls + 1
               /\ result'.pushed \in {result.pushed, result.pushed + 1}
               /\ result'.pushed = result.pushed + 1
                  => /\ \E sid \in DOMAIN server' :
                           /\ server'[sid].name = recipe.name
                           /\ sid \notin DOMAIN server \/ sid = recipe.id
                     /\ local'[recipe.id].syncedAt = clock
               /\ result'.pushed = result.pushed
                  => (server' = server /\ local' = local)
               /\ server' # server => result'.pushed = result.pushed + 1)
       /\ ((pc = "pull" /\ pc' = "push") => result'.pushed = 0)
       /\ ((pc = "push" /\ pc' # "push") => localChanges = <<>>)]_vars

\* The first of two selected recipes has just failed to be pushed and the
\* second is still to be attempted.
C24_Witness ==
    /\ pc = "push" /\ Len(localChanges) = 1
    /\ remoteCalls = 2 /\ result.pushed = 0
    /\ \E id \in DOMAIN local :
          /\ id # localChanges[1].id
          /\ local[id].syncedAt = NULL \/ local[id].updatedAt > local[id].syncedAt

InRun == pc \in {"pull", "push"}
Contents(tbl) == [id \in DOMAIN tbl |-> ContentOf(tbl[id])]

\* C26: no duplication through the create-push-pull round trip.  Once a
\* locally created recipe (UUID id) has been pushed successfully, no later
\* step inserts a second local row for the server recipe the push created
\* and no second server recipe is created for it; and a performSync that
\* follows a completed one with nothing created or deleted in between
\* leaves the number of local rows and of server recipes as it was.
C26_NoDuplication ==
    [][/\ \A p \in hist.posted :
             (p[1] \in DOMAIN local /\ p[2] \notin DOMAIN local)
             => p[2] \notin DOMAIN local'
       /\ \A p, q \in hist'.posted : p[1] = q[1] => p[2] = q[2]
       /\ (InRun /\ hist.following /\ hist.failed = {})
          => /\ Cardinality(DOMAIN local') = Cardinality(DOMAIN local)
             /\ Cardinality(DOMAIN server') = Cardinality(DOMAIN server)]_vars

\* C27: failed pushes are retried.  A recipe whose push failed in a run that
\* otherwise completed, and that was not edited since, is among the recipes
\* the push phase of the next performSync selects for sending.
C27_FailedPushRetried ==
    [][(pc = "pull" /\ pc' = "push")
       => \A id \in hist.failed \cap DOMAIN local :
             \E i \in DOMAIN localChanges' : localChanges'[i].id = id]_vars

\* C28: a recipe in conflict is not pushed in the same run.  While the push
\* phase runs, the server copy of every recipe the pull phase reported as in
\* conflict stays as it is and the row's synced_at is not stamped.
InConflict == {result.conflicts[i].localVersion.id : i \in DOMAIN result.conflicts}

C28_ConflictNotPushed ==
    [][pc = "push"
       => \A id \in InConflict :
             /\ id \in DOMAIN server' /\ server'[id] = server[id]
             /\ local'[id].syncedAt = local[id].syncedAt]_vars

\* C30: sync quiescence.  A performSync that immediately follows one that
\* completed with no error and no conflicts, with no local edit and no
\* server change in between, reports pushed = 0 and conflicts = [] and
\* leaves the content of every recipe unchanged; and no push step sends a
\* recipe that the pull phase of the same run inserted or overwrote.
C30_Quiescence ==
    [][/\ (InRun /\ hist.following)
          => /\ result'.pushed = 0 /\ result'.conflicts = <<>>
             /\ Contents(local') = Contents(local)
             /\ server' = server
       /\ PushStep => Head(localChanges).id \notin touched]_vars

----------------------------------------------------------------------------
(* MealPlanSolver (lib/solver/solver.ts, lib/solver/constants.ts).          *)

Macros == <<"calories", "protein", "fat", "carbs", "fiber">>
MacroSet == {Macros[i] : i \in DOMAIN Macros}
ValidSlots == {"breakfast", "lunch", "dinner", "snack", "dessert"}
DefaultSlots == <<"breakfast", "lunch", "dinner">>
NullId == "null"                \* planData[day][slot] = null
NoRating == 0                   \* RecipeInput.rating = null
BASE_MAX_DEV == [calories |-> 200, protein |-> 20, fat |-> 20, carbs |-> 40, fiber |-> 15]
MACRO_CAPS == [calories |-> "le", protein |-> "ge", fat |-> "le", carbs |-> "le", fiber |-> "ge"]
CAP_PENALTY == 1000
REUSE_PENALTY == 30
RATING_WEIGHT == 8
PROTEIN_VARIETY_PENALTY == 500
MAX_PROTEIN_TYPES == 2
MaxNumDays == 7
PlanNames == <<"Plan 1", "Plan 2", "Plan 3", "Plan 4">>

\* Keys that JavaScript treats as array indices: own properties with such keys
\* are enumerated first, in ascending numeric order.
IntegerKeys == [k \in {"1", "2", "3"} |-> CASE k = "1" -> 1 [] k = "2" -> 2 [] k = "3" -> 3]

Range(q) == {q[i] : i \in DOMAIN q}
Min(a, b) == IF a < b THEN a ELSE b
Max(a, b) == IF a > b THEN a ELSE b

\* solve: numDays = Math.max(1, Math.min(numDays, 7)); days = [0 .. numDays-1].
ClampDays(n) == Max(1, Min(n, MaxNumDays))
Days(in) == 0..(ClampDays(in.numDays) - 1)

\* solve: the active meal slots, in order.
ActiveSlots(in) ==
    LET valid(slot) == slot \in ValidSlots
        filtered == SelectSeq(in.selectedSlots.slots, valid)
        base == IF in.selectedSlots.given
                THEN IF Len(filtered) = 0 THEN DefaultSlots ELSE filtered
                ELSE DefaultSlots
    IN  IF in.includeSnacks /\ "snack" \notin Range(base)
        THEN Append(base, "snack") ELSE base

\* solve: priorityRank[order[i]] = i + 1.
PriorityRank(in, m) ==
    IF \E i \in DOMAIN in.priorityOrder : in.priorityOrder[i] = m
    THEN CHOOSE i \in DOMAIN in.priorityOrder :
            /\ in.priorityOrder[i] = m
            /\ \A j \in DOMAIN in.priorityOrder : in.priorityOrder[j] = m => j <= i
    ELSE 0

\* solve: priorityWeights[order[i]] = max(1000 - 200 i, 200); _solveSingle
\* uses 200 for a macro that is not in the order.
PriorityWeight(in, m) ==
    IF PriorityRank(in, m) = 0 THEN 200
    ELSE Max(1000 - 200 * (PriorityRank(in, m) - 1), 200)

\* maxDeviations one rank wider: base * (1 + rank * 0.5), doubled.
MaxDeviation2Wider(in, m) ==
    LET rank == IF PriorityRank(in, m) = 0 THEN 5 ELSE PriorityRank(in, m)
    IN  BASE_MAX_DEV[m] * (rank + 2)

\* solve: maxDeviations[macro] = base * (1 + (rank - 1) * 0.5), rank ?? 5;
\* the value is kept doubled, base * (rank + 1).
MaxDeviation2(in, m) ==
    LET rank == IF PriorityRank(in, m) = 0 THEN 5 ELSE PriorityRank(in, m)
    IN  BASE_MAX_DEV[m] * (rank + 1)

\* solve: is recipe r pushed to byCategory[slot]?
InCategory(in, r, slot) ==
    IF in.combineLunchDinner /\ r.category \in {"lunch", "dinner"}
    THEN slot \in {"lunch", "dinner"}
    ELSE r.category = slot

\* solve: byCategory[slot], the recipes of the slot in input order.
ByCategory(in, slot) ==
    LET member(r) == InCategory(in, r, slot)
    IN  SelectSeq(in.recipes, member)

EmptyCategoryFirstSlot(in) ==
    Len(ByCategory(in, ActiveSlots(in)[1])) = 0

\* solve: some active slot has no recipe.
EmptyCategory(in) ==
    \E slot \in Range(ActiveSlots(in)) : Len(ByCategory(in, slot)) = 0

RECURSIVE SumFn(_)
SumFn(f) ==
    IF DOMAIN f = {} THEN 0
    ELSE LET x == CHOOSE y \in DOMAIN f : TRUE
         IN  f[x] + SumFn([y \in DOMAIN f \ {x} |-> f[y]])

RECURSIVE Gcd(_, _)
Gcd(a, b) == IF b = 0 THEN a ELSE Gcd(b, a % b)
Lcm(a, b) == (a * b) \div Gcd(a, b)


(* _solveSingle.  c is the context of the solve call: its inputs (c.in) and   *)
(* the locals activeSlots and byCategory.  A solver answer is the set X of   *)
(* the variables x_<id>_<day>_<slot> whose value is 1.                      *)

SlotSet(c) == Range(c.activeSlots)
CatIds(c, slot) == {c.byCategory[slot][i].id : i \in 1..Len(c.byCategory[slot])}

\* recipeLookup: every recipe of byCategory, by id.
LookupRecipes(c) == UNION {Range(c.byCategory[slot]) : slot \in SlotSet(c)}
Lookup(c, id) == CHOOSE r \in LookupRecipes(c) : r.id = id

\* Object.values(recipeLookup)[0]?.frequencyLimit ?? 1: integer-like keys come
\* first in ascending order, then the other keys in insertion order.
SampleFreq(c) ==
    LET numeric == {r \in LookupRecipes(c) : r.id \in DOMAIN IntegerKeys}
    IN  IF numeric # {}
        THEN (CHOOSE r \in numeric :
                \A q \in numeric : IntegerKeys[r.id] <= IntegerKeys[q.id]).frequencyLimit
        ELSE IF c.activeSlots # <<>> /\ c.byCategory[c.activeSlots[1]] # <<>>
        THEN c.byCategory[c.activeSlots[1]][1].frequencyLimit
        ELSE 1

\* Constraint 3, the while loop: the blocks of days, first block first.
RECURSIVE BlocksFrom(_, _, _)
BlocksFrom(start, blockSize, numDays) ==
    IF start >= numDays THEN <<>>
    ELSE LET end == Min(start + blockSize, numDays)
         IN  <<start..(end - 1)>> \o BlocksFrom(end, blockSize, numDays)

Blocks(c) ==
    LET numDays == Cardinality(Days(c.in))
    IN  BlocksFrom(0, Min(SampleFreq(c), numDays), numDays)

\* The variables x[r.id][d][cat] of day d.
DayVars(c, d) == UNION {{<<id, d, slot>> : id \in CatIds(c, slot)} : slot \in SlotSet(c)}

OneRecipePerSlotAtMost(c, X, d, slot) ==
    Cardinality({i \in 1..Len(c.byCategory[slot]) :
                    <<c.byCategory[slot][i].id, d, slot>> \in X}) <= 1

\* Constraint 1: sum over byCategory[slot] of x[r][d][slot] = 1.
OneRecipePerSlot(c, X, d, slot) ==
    Cardinality({i \in 1..Len(c.byCategory[slot]) :
                    <<c.byCategory[slot][i].id, d, slot>> \in X}) = 1

FrequencyLimitPlusOne(c, X, r) ==
    Cardinality({v \in X : v[1] = r.id}) <= r.frequencyLimit + 1

\* Constraint 2: sum over all days and slots of x[r] <= r.frequencyLimit.
FrequencyLimit(c, X, r) ==
    Cardinality({v \in X : v[1] = r.id}) <= r.frequencyLimit

\* Constraint 3: x[r][d][slot] - x[r][firstDay][slot] = 0 for the days of X.
BlockSame(c, X) ==
    LET blocks == Blocks(c)
        daysOfX == {v[2] : v \in X}
    IN  \A b \in DOMAIN blocks :
            LET firstDay == CHOOSE f \in blocks[b] : \A d \in blocks[b] : f <= d
            IN  \A d \in (blocks[b] \ {firstDay}) \cap daysOfX :
                    \A slot \in SlotSet(c) : \A id \in CatIds(c, slot) :
                        (<<id, d, slot>> \in X) <=> (<<id, firstDay, slot>> \in X)

SlotConsistencyPerDay(c, X) ==
    (c.in.combineLunchDinner /\ "lunch" \in SlotSet(c) /\ "dinner" \in SlotSet(c))
    => \A id \in CatIds(c, "lunch") \cap CatIds(c, "dinner") :
          \A d \in Days(c.in) :
              \E choice \in {0, 1} :
                  /\ \A v \in X : (v[1] = id /\ v[2] = d /\ v[3] = "lunch") => 1 <= choice
                  /\ \A v \in X : (v[1] = id /\ v[2] = d /\ v[3] = "dinner") => 1 <= 1 - choice

\* Constraint 4: x[r][d][lunch] <= slot_choice[r], x[r][d][dinner] <= 1 - slot_choice[r].
SlotConsistency(c, X) ==
    (c.in.combineLunchDinner /\ "lunch" \in SlotSet(c) /\ "dinner" \in SlotSet(c))
    => \A id \in CatIds(c, "lunch") \cap CatIds(c, "dinner") :
          \E choice \in {0, 1} :
              /\ \A v \in X : (v[1] = id /\ v[3] = "lunch") => 1 <= choice
              /\ \A v \in X : (v[1] = id /\ v[3] = "dinner") => 1 <= 1 - choice

\* dailyTerms[macro] evaluated at X.
DailySum(c, X, d, m) ==
    SumFn([v \in {w \in X : w[2] = d} |-> Lookup(c, v[1])[m]])

\* Is the macro constrained: targetVal !== undefined && targetVal > 0.
HasTarget(c, m) == c.in.targets[m] > 0

\* Hard bounds: target - maxDev <= daily sum <= target + maxDev (doubled).
HardBounds(c, X, d) ==
    \A m \in MacroSet :
        HasTarget(c, m) =>
            /\ 2 * DailySum(c, X, d, m) >= 2 * c.in.targets[m] - MaxDeviation2(c.in, m)
            /\ 2 * DailySum(c, X, d, m) <= 2 * c.in.targets[m] + MaxDeviation2(c.in, m)

\* Protein indicators: use_prot[p] >= x[r][d][slot] for every protein p of r.
AllProteins(c) == UNION {r.proteinTypes : r \in LookupRecipes(c)}
UsedProteins(c, X) == UNION {Lookup(c, v[1]).proteinTypes : v \in X}

\* Hard cap on the number of protein types (maxProteinTypes = 0 stands for null).
ProteinCap(c, X, maxProteinTypes) ==
    (c.in.preferSimilarIngredients /\ maxProteinTypes # 0
        /\ Cardinality(AllProteins(c)) > maxProteinTypes)
    => Cardinality(UsedProteins(c, X)) <= maxProteinTypes

\* The assignments of day d that satisfy the constraints of that day alone.
DayCands(c, d, useHard) ==
    {Xd \in SUBSET DayVars(c, d) :
        /\ \A slot \in SlotSet(c) : OneRecipePerSlot(c, Xd, d, slot)
        /\ useHard => HardBounds(c, Xd, d)}

\* The constraints that link the days.
AcrossDays(c, X) ==
    /\ \A r \in LookupRecipes(c) : FrequencyLimit(c, X, r)
    /\ BlockSame(c, X)
    /\ SlotConsistency(c, X)

\* The assignments of days 0..k-1 that satisfy every constraint on those days.
RECURSIVE UpToDay(_, _, _)
UpToDay(c, k, useHard) ==
    IF k = 0 THEN {{}}
    ELSE {p[1] \cup p[2] :
            p \in {q \in UpToDay(c, k - 1, useHard) \X DayCands(c, k - 1, useHard) :
                     AcrossDays(c, q[1] \cup q[2])}}

\* The feasible points of the problem built by _solveSingle.
Feasible(c, useHard, maxProteinTypes) ==
    {X \in UpToDay(c, Cardinality(Days(c.in)), useHard) :
        ProteinCap(c, X, maxProteinTypes)}

\* The objective at X with the continuous variables at their best values:
\* dev_plus + dev_minus = |sum - target|, cap_slack = the excess in the
\* penalised direction.  The value is scaled by ObjScale to stay integral.
ObjScale(c) ==
    LET tl == [i \in DOMAIN Macros |-> Max(c.in.targets[Macros[i]], 1)]
    IN  5 * Lcm(Lcm(Lcm(Lcm(tl[1], tl[2]), tl[3]), tl[4]), tl[5])

Abs(n) == IF n < 0 THEN -n ELSE n

MacroCost(c, X, d, m) ==
    LET t == c.in.targets[m]
        sum == DailySum(c, X, d, m)
        capSlack == IF MACRO_CAPS[m] = "le" THEN Max(sum - t, 0) ELSE Max(t - sum, 0)
    IN  (ObjScale(c) \div t) * (CAP_PENALTY * capSlack + PriorityWeight(c.in, m) * Abs(sum - t))

RatingCost(c, r) ==
    LET rating == IF r.rating = NoRating THEN 5 ELSE r.rating
    IN  IF rating < 5 THEN (ObjScale(c) \div 5) * RATING_WEIGHT * (5 - rating) ELSE 0

Objective(c, X, penalizedRecipeIds) ==
    ObjScale(c) * REUSE_PENALTY * Cardinality({v \in X : v[1] \in penalizedRecipeIds})
    + SumFn([v \in X |-> RatingCost(c, Lookup(c, v[1]))])
    + (IF c.in.preferSimilarIngredients
       THEN ObjScale(c) * PROTEIN_VARIETY_PENALTY * Cardinality(UsedProteins(c, X))
       ELSE 0)
    + SumFn([dm \in {e \in Days(c.in) \X MacroSet : HasTarget(c, e[2])} |->
                MacroCost(c, X, dm[1], dm[2])])

\* glpk.solve with status GLP_OPT: any feasible point of least objective.
Optimal(c, penalizedRecipeIds, useHard, maxProteinTypes) ==
    LET valued == {<<X, Objective(c, X, penalizedRecipeIds)>> :
                      X \in Feasible(c, useHard, maxProteinTypes)}
        least == {p[2] : p \in {q \in valued : \A o \in valued : q[2] <= o[2]}}
    IN  {p[1] : p \in {q \in valued : q[2] \in least}}

\* Extract solution: planData[dayNames[d]][slot] = the last recipe of
\* byCategory[slot] whose variable rounds to 1, or null.
ExtractPlan(c, X) ==
    [day \in {d + 1 : d \in Days(c.in)} |->
        [slot \in SlotSet(c) |->
            LET hits == {i \in 1..Len(c.byCategory[slot]) :
                            <<c.byCategory[slot][i].id, day - 1, slot>> \in X}
            IN  IF hits = {} THEN NullId
                ELSE c.byCategory[slot][CHOOSE i \in hits : \A j \in hits : j <= i].id]]

\* solve: the recipe ids of a plan (recipeId !== null).
PlanRecipeIds(planData) ==
    {planData[day][slot] : day \in DOMAIN planData, slot \in UNION {DOMAIN planData[dd] : dd \in DOMAIN planData}}
    \ {NullId}

-----------------------------------------------------------------------------
(* MealPlanSolver.solve as a state machine: one step per awaited call.       *)

MaxDays == 3
PlanCounts == {1, 2}

SolverIdleRest == UNCHANGED <<syncVars, planVars, utilVars>>

\* A RecipeInput; proteinTypes is getProteinTypes(recipe).
Recipe(id, category, frequencyLimit, rating, calories, protein, proteinTypes) ==
    [id |-> id, category |-> category, frequencyLimit |-> frequencyLimit,
     rating |-> rating, calories |-> calories, protein |-> protein,
     fat |-> 0, carbs |-> 0, fiber |-> 0, proteinTypes |-> proteinTypes]

\* Recipe lists handed to solve: server recipes have numeric ids, recipes
\* created on the device have UUIDs.
UniformRecipes ==
    << Recipe("2", "lunch", 1, NoRating, 500, 30, {"chicken"}),
       Recipe("c-1", "lunch", 1, 4, 600, 35, {"fish"}),
       Recipe("1", "dinner", 1, NoRating, 700, 40, {"beef"}),
       Recipe("c-2", "dinner", 1, NoRating, 500, 20, {}) >>

MixedRecipes ==
    << Recipe("2", "lunch", 2, NoRating, 500, 30, {"chicken"}),
       Recipe("c-1", "lunch", 1, NoRating, 600, 35, {"fish"}),
       Recipe("1", "dinner", 1, NoRating, 700, 40, {"beef"}),
       Recipe("c-2", "dinner", 3, 3, 500, 20, {"chicken"}) >>

LocalRecipes ==
    << Recipe("b-1", "breakfast", 3, NoRating, 300, 10, {}),
       Recipe("c-1", "lunch", 2, NoRating, 400, 25, {"chicken"}),
       Recipe("c-3", "lunch", 3, 5, 500, 20, {"beef"}),
       Recipe("c-2", "dinner", 2, NoRating, 500, 30, {"fish"}),
       Recipe("c-4", "dinner", 1, 2, 300, 15, {}) >>

\* priorityOrder as the preferences screen hands it over: the default order
\* and its reverse.
FiberFirst == <<"fiber", "carbs", "fat", "protein", "calories">>

NoTargets == [m \in MacroSet |-> 0]
SomeTargets == [NoTargets EXCEPT !["calories"] = 1000, !["protein"] = 50]

\* One request for three plans, so that a plan can precede and follow a
\* skipped index.
ThreePlanInputs ==
    [recipes : {UniformRecipes},
     targets : {SomeTargets},
     numPlans : {3},
     numDays : {1},
     includeSnacks : {FALSE},
     combineLunchDinner : {FALSE},
     selectedSlots : {[given |-> TRUE, slots |-> <<"lunch", "dinner", "brunch">>]},
     priorityOrder : {Macros},
     preferSimilarIngredients : BOOLEAN]

GeneralInputs ==
    [recipes : {UniformRecipes, MixedRecipes, LocalRecipes},
     targets : {NoTargets, SomeTargets},
     numPlans : PlanCounts,
     numDays : 0..MaxDays,
     includeSnacks : BOOLEAN,
     combineLunchDinner : BOOLEAN,
     selectedSlots : {[given |-> FALSE, slots |-> <<>>],
                      [given |-> TRUE, slots |-> <<"lunch", "dinner", "brunch">>]},
     priorityOrder : {Macros, FiberFirst},
     preferSimilarIngredients : BOOLEAN]

SolveInputs == GeneralInputs \cup ThreePlanInputs

\* penalize without the recipes of the earlier plans.
PenalizeNothing == {}

\* solve: penalize = planIdx > 0 ? new Set(usedRecipeIds) : new Set().
Penalize == IF sv.planIdx > 0 THEN sv.usedRecipeIds ELSE {}

\* solve: plan.name = `Plan ${planIdx + 1}`; plans.push(plan); the recipe ids
\* of the plan join usedRecipeIds; then the next index.
AcceptPlan(X, call) ==
    LET planData == ExtractPlan(sv, X)
    IN  sv' = [sv EXCEPT
                !.plans = Append(@, [name |-> PlanNames[sv.planIdx + 1],
                                     planData |-> planData]),
                !.tiers = Append(@, call.tier),
                !.calls = Append(@, call),
                !.usedRecipeIds = @ \cup PlanRecipeIds(planData),
                !.planIdx = @ + 1,
                !.pc = IF sv.planIdx + 1 < sv.in.numPlans THEN "tier1" ELSE "returned"]

\* solve up to the first await: slots, grouping, the empty category return.
SolveStart ==
    /\ sv.pc = "start"
    /\ LET slots == ActiveSlots(sv.in)
       IN  sv' = [sv EXCEPT
                    !.activeSlots = slots,
                    !.byCategory = [slot \in Range(slots) |-> ByCategory(sv.in, slot)],
                    !.pc = IF EmptyCategory(sv.in) \/ sv.in.numPlans <= 0
                           THEN "returned" ELSE "tier1"]
    /\ SolverIdleRest

\* The call of _solveSingle made for the current index at the given tier.
Call(tier, useHard, maxProteinTypes, optimal) ==
    [planIdx |-> sv.planIdx, tier |-> tier, useHard |-> useHard,
     maxProteinTypes |-> maxProteinTypes, penalize |-> Penalize, optimal |-> optimal]

\* Tier 1 followed by Tier 2 whatever preferSimilarIngredients is.
SolveTier1AlwaysTier2 ==
    /\ sv.pc = "tier1"
    /\ LET cap == IF sv.in.preferSimilarIngredients THEN MAX_PROTEIN_TYPES ELSE 0
       IN  \/ \E X \in Optimal(sv, Penalize, TRUE, cap) :
                 AcceptPlan(X, Call(1, TRUE, cap, TRUE))
           \/ sv' = [sv EXCEPT !.calls = Append(@, Call(1, TRUE, cap, FALSE)),
                               !.pc = "tier2"]
    /\ SolverIdleRest

\* Tier 1: hard macro bounds + protein cap (if similar ingredients).
SolveTier1 ==
    /\ sv.pc = "tier1"
    /\ LET cap == IF sv.in.preferSimilarIngredients THEN MAX_PROTEIN_TYPES ELSE 0
       IN  \/ \E X \in Optimal(sv, Penalize, TRUE, cap) :
                 AcceptPlan(X, Call(1, TRUE, cap, TRUE))
           \/ sv' = [sv EXCEPT !.calls = Append(@, Call(1, TRUE, cap, FALSE)),
                               !.pc = IF sv.in.preferSimilarIngredients
                                      THEN "tier2" ELSE "tier3"]
    /\ SolverIdleRest

\* Tier 2: hard macro bounds, no protein cap.
SolveTier2 ==
    /\ sv.pc = "tier2"
    /\ \/ \E X \in Optimal(sv, Penalize, TRUE, 0) :
             AcceptPlan(X, Call(2, TRUE, 0, TRUE))
       \/ sv' = [sv EXCEPT !.calls = Append(@, Call(2, TRUE, 0, FALSE)),
                           !.pc = "tier3"]
    /\ SolverIdleRest

\* Tier 3: soft-only; without a plan the index is skipped.
SolveTier3 ==
    /\ sv.pc = "tier3"
    /\ \/ \E X \in Optimal(sv, Penalize, FALSE, 0) :
             AcceptPlan(X, Call(3, FALSE, 0, TRUE))
       \/ sv' = [sv EXCEPT !.calls = Append(@, Call(3, FALSE, 0, FALSE)),
                           !.planIdx = @ + 1,
                           !.pc = IF sv.planIdx + 1 < sv.in.numPlans
                                  THEN "tier1" ELSE "returned"]
    /\ SolverIdleRest

InitSolver ==
    /\ \E in \in SolveInputs :
          sv = [pc |-> "start", in |-> in, activeSlots |-> <<>>,
                byCategory |-> [slot \in {} |-> <<>>], planIdx |-> 0,
                plans |-> <<>>, tiers |-> <<>>, usedRecipeIds |-> {},
                calls |-> <<>>]
    /\ mealPlans = <<>> /\ planPc = "idle" /\ planArg = 0
    /\ clock = 1 /\ local = EmptyTable /\ server = EmptyTable /\ serverToken = FALSE
    /\ lastSyncAt = NULL /\ prefs = "p1" /\ serverPrefs = EmptyPrefs /\ pc = "idle"
    /\ lastSync = NULL /\ toPull = <<>> /\ localChanges = <<>> /\ result = EmptyResult
    /\ touched = {} /\ remoteCalls = 0 /\ runs = 0 /\ envBudget = 0 /\ hist = NoHistory
    /\ rr = [pc |-> "off"] /\ sh = [pc |-> "off"] /\ rc = [pc |-> "off"]

SolverNext == SolveStart \/ SolveTier1 \/ SolveTier2 \/ SolveTier3

SpecSolver == InitSolver /\ [][SolverNext]_vars

-----------------------------------------------------------------------------
(* Claims about MealPlanSolver.solve, checked under SpecSolver. *)

\* The plans that solve returns (plans is only ever appended to).
PlanDataOf(i) == sv.plans[i].planData
PlanDays == {d + 1 : d \in Days(sv.in)}

\* Slot compatibility: a recipe is eligible for its own category slot, and with
\* combineLunchDinner a lunch-or-dinner recipe is eligible for both.
SlotCompatible(r, slot) ==
    \/ r.category = slot
    \/ sv.in.combineLunchDinner /\ r.category \in {"lunch", "dinner"}
                                /\ slot \in {"lunch", "dinner"}

\* The (day, slot) positions of plan i that hold recipe id.
Positions(i, id) ==
    {ds \in (DOMAIN PlanDataOf(i)) \X Range(sv.activeSlots) :
        PlanDataOf(i)[ds[1]][ds[2]] = id}

\* C7 (P1): in every plan returned by solve, whatever tier produced it, every
\* day has exactly one recipe assigned to each active slot, that recipe is
\* compatible with the slot, and no slot occurs twice within a day.
C7_OneRecipePerActiveSlot ==
    \A i \in DOMAIN sv.plans :
        /\ DOMAIN PlanDataOf(i) = PlanDays
        /\ \A day \in PlanDays :
              /\ DOMAIN PlanDataOf(i)[day] = Range(ActiveSlots(sv.in))
              /\ \A slot \in DOMAIN PlanDataOf(i)[day] :
                    /\ PlanDataOf(i)[day][slot] # NullId
                    /\ \E r \in Range(sv.in.recipes) :
                          r.id = PlanDataOf(i)[day][slot] /\ SlotCompatible(r, slot)

\* Two plans of several days each, produced by different tiers.
C7_Witness ==
    /\ sv.pc = "returned"
    /\ Len(sv.plans) = 2
    /\ sv.tiers[1] # sv.tiers[2]
    /\ Cardinality(PlanDays) >= 2

\* C8 (P2): in every plan returned by solve, every recipe r is assigned in at
\* most r.frequencyLimit (day, slot) positions, counting all days and slots.
C8_FrequencyLimit ==
    \A i \in DOMAIN sv.plans :
        \A r \in Range(sv.in.recipes) :
            Cardinality(Positions(i, r.id)) <= r.frequencyLimit

\* With lunch and dinner combined, a recipe that may be used several times is
\* used exactly as often as its limit allows.
C8_Witness ==
    /\ sv.in.combineLunchDinner
    /\ \E i \in DOMAIN sv.plans :
          \E r \in Range(sv.in.recipes) :
              /\ r.frequencyLimit >= 2
              /\ Cardinality(Positions(i, r.id)) = r.frequencyLimit

\* The first recipe of the lookup as it is filled: the first recipe of the
\* first active slot.
FirstRecipe == sv.byCategory[sv.activeSlots[1]][1]

\* C9 (P3): in every plan returned by solve, with the days partitioned into
\* contiguous blocks of size min(frequencyLimit of the first recipe, numDays),
\* the recipe of each active slot is the same on all days of a block, also
\* when recipes have different frequency limits.
C9_BlockGrouping ==
    \A i \in DOMAIN sv.plans :
        LET numDays == Cardinality(PlanDays)
            blocks == BlocksFrom(0, Min(FirstRecipe.frequencyLimit, numDays), numDays)
        IN  \A b \in DOMAIN blocks : \A d1, d2 \in blocks[b] :
                \A slot \in Range(sv.activeSlots) :
                    PlanDataOf(i)[d1 + 1][slot] = PlanDataOf(i)[d2 + 1][slot]

\* The grouping relative to the block size _solveSingle computes (sampleFreq).
BlockGroupingAsBuilt ==
    \A i \in DOMAIN sv.plans :
        \A b \in DOMAIN Blocks(sv) : \A d1, d2 \in Blocks(sv)[b] :
            \A slot \in Range(sv.activeSlots) :
                PlanDataOf(i)[d1 + 1][slot] = PlanDataOf(i)[d2 + 1][slot]

\* C10 (P4): with combineLunchDinner on, in every plan returned by solve no
\* recipe id is assigned to a lunch slot on one day and to a dinner slot on the
\* same or another day.
C10_LunchOrDinnerOnly ==
    \A i \in DOMAIN sv.plans :
        sv.in.combineLunchDinner =>
            \A d1, d2 \in DOMAIN PlanDataOf(i) :
                ("lunch" \in DOMAIN PlanDataOf(i)[d1] /\ "dinner" \in DOMAIN PlanDataOf(i)[d2])
                => PlanDataOf(i)[d1]["lunch"] # PlanDataOf(i)[d2]["dinner"]

\* A plan over several days, lunch and dinner combined, in which a dinner
\* recipe is served for lunch and a recipe is used on more than one day.
C10_Witness ==
    /\ sv.in.combineLunchDinner
    /\ \E i \in DOMAIN sv.plans :
          /\ \E day \in DOMAIN PlanDataOf(i) : \E r \in Range(sv.in.recipes) :
                r.category = "dinner" /\ PlanDataOf(i)[day]["lunch"] = r.id
          /\ \E r \in Range(sv.in.recipes) : Cardinality(Positions(i, r.id)) >= 2

\* solvedPlanToMealPlan: label = solved.name || `Plan ${index + 1}`.
solvedPlanToMealPlanLabel(solved, index) ==
    IF solved.name = "" THEN PlanNames[index + 1] ELSE solved.name

\* C11 (P5, labels): the plans returned by one solve call carry the labels
\* "Plan 1", "Plan 2", ... in order: the k-th returned plan is labelled
\* "Plan k", for every combination of solver outcomes at the tiers.
C11_LabelsInOrder ==
    \A k \in DOMAIN sv.plans :
        solvedPlanToMealPlanLabel(sv.plans[k], k - 1) = PlanNames[k]

\* C12 (EmptyCategory): if after grouping some active slot has no compatible
\* recipe, solve returns the empty plan list and never calls the MILP backend.
C12_EmptyCategory ==
    (/\ sv.pc # "start"
     /\ \E slot \in Range(ActiveSlots(sv.in)) :
           ~ \E r \in Range(sv.in.recipes) : SlotCompatible(r, slot))
    => (sv.pc = "returned" /\ sv.plans = <<>> /\ sv.calls = <<>>)

\* solve has returned for an input whose lunch and dinner recipes are shared
\* but whose breakfast slot has no recipe.
C12_Witness ==
    /\ sv.pc = "returned"
    /\ sv.in.combineLunchDinner
    /\ sv.activeSlots = DefaultSlots
    /\ sv.byCategory["breakfast"] = <<>>
    /\ sv.byCategory["lunch"] # <<>>
    /\ sv.plans = <<>>

\* The positions in the call log of the calls made for plan index k, and of
\* the calls that returned an optimal result.
CallsFor(k) == {i \in DOMAIN sv.calls : sv.calls[i].planIdx = k}
OptimalCalls == {i \in DOMAIN sv.calls : sv.calls[i].optimal}

\* The j-th call that returned an optimal result.
OptimalCall(j) ==
    sv.calls[CHOOSE i \in OptimalCalls :
                 Cardinality({m \in OptimalCalls : m <= i}) = j]

\* The first call for an index is Tier 1; a later call follows a non-optimal
\* call of a lower tier for the same index; each tier has its own arguments.
TierOrder ==
    \A i \in DOMAIN sv.calls :
        LET c == sv.calls[i]
            prev == sv.calls[i - 1]
            first == i = 1 \/ sv.calls[i - 1].planIdx # c.planIdx
            prefer == sv.in.preferSimilarIngredients
        IN  /\ c.tier \in {1, 2, 3}
            /\ first <=> c.tier = 1
            /\ first => c.planIdx = IF i = 1 THEN 0 ELSE prev.planIdx + 1
            /\ (first /\ i > 1) => (prev.optimal \/ prev.tier = 3)
            /\ ~ first => (~ prev.optimal /\ prev.tier < c.tier)
            /\ c.tier = 1 => /\ c.useHard
                             /\ c.maxProteinTypes =
                                    IF prefer THEN MAX_PROTEIN_TYPES ELSE 0
            /\ c.tier = 2 => /\ prefer /\ prev.tier = 1
                             /\ c.useHard /\ c.maxProteinTypes = 0
            /\ c.tier = 3 => /\ prev.tier = IF prefer THEN 2 ELSE 1
                             /\ ~ c.useHard /\ c.maxProteinTypes = 0

\* What the driver does after the last call made so far: after a non-optimal
\* Tier 1 or Tier 2 the next tier is due for the same index; after an optimal
\* call or a non-optimal Tier 3 the next index is due, or solve has returned.
TierProgress ==
    sv.calls # <<>> =>
        LET c == sv.calls[Len(sv.calls)]
        IN  IF c.optimal \/ c.tier = 3
            THEN /\ sv.planIdx = c.planIdx + 1
                 /\ sv.pc = IF sv.planIdx < sv.in.numPlans THEN "tier1" ELSE "returned"
            ELSE /\ sv.planIdx = c.planIdx
                 /\ sv.pc = IF c.tier = 1 /\ sv.in.preferSimilarIngredients
                            THEN "tier2" ELSE "tier3"

\* The plans are the optimal results, in order: the j-th plan is the result of
\* the j-th optimal call and is named after that call's index; an index whose
\* calls were all non-optimal has no plan.
OptimalBecomesPlan ==
    /\ Len(sv.plans) = Cardinality(OptimalCalls)
    /\ \A j \in DOMAIN sv.plans :
          /\ sv.tiers[j] = OptimalCall(j).tier
          /\ sv.plans[j].name = PlanNames[OptimalCall(j).planIdx + 1]
    /\ \A k \in 0..(sv.in.numPlans - 1) :
          (CallsFor(k) # {} /\ CallsFor(k) \cap OptimalCalls = {})
          => ~ \E j \in DOMAIN sv.plans : sv.plans[j].name = PlanNames[k + 1]

\* C20 (tier escalation): for each plan index solve calls the solver at most
\* three times, in the order Tier 1 (hard macro bounds, plus the protein cap
\* when preferSimilarIngredients), Tier 2 (hard bounds, no cap; only with
\* preferSimilarIngredients and after a non-optimal Tier 1), Tier 3 (no hard
\* bounds, no cap; only after every earlier attempt was non-optimal); the
\* first optimal result becomes the plan, and when every attempt is non-optimal
\* the index is skipped and the driver continues with the next index.
C20_TierEscalation ==
    /\ \A k \in 0..(sv.in.numPlans - 1) : Cardinality(CallsFor(k)) <= 3
    /\ TierOrder
    /\ TierProgress
    /\ OptimalBecomesPlan
    /\ (sv.pc = "returned" /\ sv.calls # <<>>)
       => \A k \in 0..(sv.in.numPlans - 1) : CallsFor(k) # {}

\* solve has returned after three non-optimal calls for the first index and
\* an optimal Tier 2 result for the second, which is the only plan.
C20_Witness ==
    /\ sv.pc = "returned"
    /\ sv.in.numPlans = 2
    /\ Cardinality(CallsFor(0)) = 3
    /\ CallsFor(0) \cap OptimalCalls = {}
    /\ Len(sv.calls) = 5
    /\ sv.calls[5].tier = 2 /\ sv.calls[5].optimal
    /\ Len(sv.plans) = 1 /\ sv.plans[1].name = PlanNames[2]

\* The recipe with the given id, and the sum of macro m over the recipes that
\* plan i assigns to the slots of a day.
RecipeById(id) == CHOOSE r \in Range(sv.in.recipes) : r.id = id
PlanDailySum(i, day, m) ==
    SumFn([slot \in DOMAIN PlanDataOf(i)[day] |->
              RecipeById(PlanDataOf(i)[day][slot])[m]])

\* maxDev = base x (1 + 0.5 x (rank - 1)) with rank the 1-based position of
\* the macro in priorityOrder; the value is doubled, base x (rank + 1).
BaseDeviation ==
    [calories |-> 200, protein |-> 20, fat |-> 20, carbs |-> 40, fiber |-> 15]
RankIn(order, m) == CHOOSE k \in DOMAIN order : order[k] = m
DoubledMaxDev(m) == BaseDeviation[m] * (RankIn(sv.in.priorityOrder, m) + 1)

WithinHardBounds(i) ==
    \A day \in DOMAIN PlanDataOf(i) : \A m \in MacroSet :
        sv.in.targets[m] > 0 =>
            /\ 2 * PlanDailySum(i, day, m) >= 2 * sv.in.targets[m] - DoubledMaxDev(m)
            /\ 2 * PlanDailySum(i, day, m) <= 2 * sv.in.targets[m] + DoubledMaxDev(m)

\* C21 (hard macro bounds): every plan obtained from Tier 1 or Tier 2 has, for
\* every day and every macro with a positive target, a daily sum within
\* [target - maxDev, target + maxDev], maxDev = base x (1 + 0.5 x (rank - 1));
\* a plan obtained from Tier 3 is not bound by these limits.
C21_HardMacroBounds ==
    \A i \in DOMAIN sv.plans : sv.tiers[i] \in {1, 2} => WithinHardBounds(i)

\* One solve call has returned a Tier 1 or Tier 2 plan for positive targets
\* and a Tier 3 plan with a daily sum outside the limits.
C21_Witness ==
    /\ \E m \in MacroSet : sv.in.targets[m] > 0
    /\ \E i \in DOMAIN sv.plans : sv.tiers[i] \in {1, 2}
    /\ \E i \in DOMAIN sv.plans : sv.tiers[i] = 3 /\ ~ WithinHardBounds(i)

\* The plan index a returned plan was produced for (its name is "Plan index + 1").
IndexOfPlan(j) == (CHOOSE k \in DOMAIN PlanNames : PlanNames[k] = sv.plans[j].name) - 1

\* The recipe ids assigned anywhere in plan j.
AssignedIds(j) ==
    UNION {{PlanDataOf(j)[day][slot] : slot \in DOMAIN PlanDataOf(j)[day]} :
              day \in DOMAIN PlanDataOf(j)} \ {NullId}

\* The union of the recipe ids of the plans produced for the indices below k.
ProducedBefore(k) ==
    UNION {AssignedIds(j) : j \in {h \in DOMAIN sv.plans : IndexOfPlan(h) < k}}

\* C22 (reuse set): the reuse-penalty set passed to the model for plan index
\* i is exactly the union of the recipe ids assigned in all plans produced for
\* the indices 0..i-1 (empty for i = 0); it only grows, is the same for all
\* tiers of one index, and skipped indices add nothing.
C22_ReuseSet ==
    /\ \A i \in DOMAIN sv.calls :
          sv.calls[i].penalize = ProducedBefore(sv.calls[i].planIdx)
    /\ \A i, j \in DOMAIN sv.calls :
          /\ i <= j => sv.calls[i].penalize \subseteq sv.calls[j].penalize
          /\ sv.calls[i].planIdx = sv.calls[j].planIdx
             => sv.calls[i].penalize = sv.calls[j].penalize

\* A plan for the first index, the second index skipped, and two tiers called
\* for the third index with the recipes of the first plan as the reuse set.
C22_Witness ==
    /\ Len(sv.plans) >= 1 /\ IndexOfPlan(1) = 0
    /\ CallsFor(1) # {} /\ CallsFor(1) \cap OptimalCalls = {}
    /\ Cardinality(CallsFor(2)) >= 2
    /\ \A i \in CallsFor(2) : sv.calls[i].penalize = AssignedIds(1)
    /\ AssignedIds(1) # {}

-----------------------------------------------------------------------------
(* rerollMeal (lib/solver/reroll.ts) and its caller handleReroll.            *)

MaxRerollDays == 2
MaxRerolls == 1

TOLERANCES == [calories |-> 100, protein |-> 10, fat |-> 10, carbs |-> 10]
RerollFields == <<"calories", "protein", "fat", "carbs">>
DayNames == <<"Day 1", "Day 2", "Day 3", "Day 4">>

RerollIdle == UNCHANGED <<syncVars, planVars, solverVars, sh, rc>>

withinToleranceCalories(candidate, current) ==
    Abs(candidate.calories - current.calories) <= TOLERANCES.calories

\* withinTolerance: every one of the four macros differs by at most its tolerance.
withinTolerance(candidate, current) ==
    \A i \in DOMAIN RerollFields :
        Abs(candidate[RerollFields[i]] - current[RerollFields[i]])
            <= TOLERANCES[RerollFields[i]]

\* macroDistance: sum of ((cVal - curVal) / max(curVal, 1))^2.  The value is
\* multiplied by the square of the least common multiple of the denominators.
DistanceScale(current) ==
    Lcm(Lcm(Max(current.calories, 1), Max(current.protein, 1)),
        Lcm(Max(current.fat, 1), Max(current.carbs, 1)))

macroDistance(candidate, current) ==
    SumFn([i \in DOMAIN RerollFields |->
            LET f == RerollFields[i]
                term == (candidate[f] - current[f])
                            * (DistanceScale(current) \div Max(current[f], 1))
            IN  term * term])

\* recomputeDayTotals: the day with its totals summed over its meals.
recomputeDayTotals(day) ==
    [day EXCEPT
        !.totalCalories = SumFn([i \in DOMAIN day.meals |-> day.meals[i].recipe.calories]),
        !.totalProtein = SumFn([i \in DOMAIN day.meals |-> day.meals[i].recipe.protein]),
        !.totalFat = SumFn([i \in DOMAIN day.meals |-> day.meals[i].recipe.fat]),
        !.totalCarbs = SumFn([i \in DOMAIN day.meals |-> day.meals[i].recipe.carbs])]

\* Math.round((total / numDays) * 10) / 10, kept in tenths.
RoundTenths(total, numDays) == (20 * total + numDays) \div (2 * numDays)

\* computeMacroSummary: the daily averages over Math.max(days.length, 1) days.
computeMacroSummary(days) ==
    LET numDays == Max(Len(days), 1)
        total(f) == SumFn([dm \in {e \in (DOMAIN days) \X (1..4) : e[2] \in DOMAIN days[e[1]].meals} |->
                            days[dm[1]].meals[dm[2]].recipe[f]])
    IN  [avgCalories |-> RoundTenths(total("calories"), numDays),
         avgProtein |-> RoundTenths(total("protein"), numDays),
         avgFat |-> RoundTenths(total("fat"), numDays),
         avgCarbs |-> RoundTenths(total("carbs"), numDays),
         avgFiber |-> RoundTenths(total("fiber"), numDays)]

\* Array.prototype.find: the index of the first element passing the test, 0 if none.
FindDay(plan, day) ==
    IF \E i \in DOMAIN plan.days : plan.days[i].day = day
    THEN CHOOSE i \in DOMAIN plan.days :
            /\ plan.days[i].day = day
            /\ \A j \in DOMAIN plan.days : plan.days[j].day = day => i <= j
    ELSE 0

FindMeal(dayPlan, slot) ==
    IF \E i \in DOMAIN dayPlan.meals : dayPlan.meals[i].slot = slot
    THEN CHOOSE i \in DOMAIN dayPlan.meals :
            /\ dayPlan.meals[i].slot = slot
            /\ \A j \in DOMAIN dayPlan.meals : dayPlan.meals[j].slot = slot => i <= j
    ELSE 0

\* rerollMeal step 1: is there a recipe at day/slot?
HasMealAt(plan, day, slot) ==
    /\ FindDay(plan, day) # 0
    /\ FindMeal(plan.days[FindDay(plan, day)], slot) # 0

CurrentRecipe(plan, day, slot) ==
    LET dayPlan == plan.days[FindDay(plan, day)]
    IN  dayPlan.meals[FindMeal(dayPlan, slot)].recipe

UsedIdsOthers(plan, currentRecipe) ==
    UNION {{plan.days[d].meals[m].recipe.id : m \in DOMAIN plan.days[d].meals} :
              d \in DOMAIN plan.days}
    \ {currentRecipe.id}

\* rerollMeal step 2: every recipe id of the plan, the current one included.
UsedIds(plan, currentRecipe) ==
    UNION {{plan.days[d].meals[m].recipe.id : m \in DOMAIN plan.days[d].meals} :
              d \in DOMAIN plan.days}
    \cup {currentRecipe.id}

\* The candidates chosen by category alone.
CandidatesOfCategory(plan, day, slot, allRecipes) ==
    LET ok(r) == r.category = slot
    IN  SelectSeq(allRecipes, ok)

\* rerollMeal step 3: same category as the slot, not in the plan.
Candidates(plan, day, slot, allRecipes) ==
    LET usedIds == UsedIds(plan, CurrentRecipe(plan, day, slot))
        ok(r) == r.category = slot /\ r.id \notin usedIds
    IN  SelectSeq(allRecipes, ok)

\* rerollMeal step 4: the candidates within tolerance of the current recipe.
Eligible(plan, day, slot, allRecipes) ==
    LET within(c) == withinTolerance(c, CurrentRecipe(plan, day, slot))
    IN  SelectSeq(Candidates(plan, day, slot, allRecipes), within)

\* candidates.sort(by macroDistance)[0]: the sort is stable, so the first
\* candidate of least distance.
Closest(plan, day, slot, allRecipes) ==
    LET cands == Candidates(plan, day, slot, allRecipes)
        cur == CurrentRecipe(plan, day, slot)
        dist == [i \in DOMAIN cands |-> macroDistance(cands[i], cur)]
        first == CHOOSE i \in DOMAIN cands :
                    /\ \A j \in DOMAIN cands : dist[i] <= dist[j]
                    /\ \A j \in DOMAIN cands : dist[j] = dist[i] => i <= j
    IN  cands[first]

IsOldMealAnyRecipe(meal, slot, currentRecipe) == meal.slot = slot

\* rerollMeal step 6: meal.slot === slot && meal.recipe.id === currentRecipe.id.
IsOldMeal(meal, slot, currentRecipe) ==
    meal.slot = slot /\ meal.recipe.id = currentRecipe.id

\* rerollMeal steps 6-8: every meal of the slot holding the current recipe
\* gets the new one; totals and summary are recomputed.
UpdatedPlan(plan, slot, currentRecipe, best) ==
    LET updatedMeals(dayPlan) ==
            [m \in DOMAIN dayPlan.meals |->
                IF IsOldMeal(dayPlan.meals[m], slot, currentRecipe)
                THEN [dayPlan.meals[m] EXCEPT !.recipe = best]
                ELSE dayPlan.meals[m]]
        updatedDays ==
            [d \in DOMAIN plan.days |->
                recomputeDayTotals([plan.days[d] EXCEPT !.meals = updatedMeals(plan.days[d])])]
    IN  [plan EXCEPT !.days = updatedDays,
                     !.macroSummary = computeMacroSummary(updatedDays),
                     !.updatedAt = "now"]

\* A Recipe as rerollMeal reads it; frequency is the limit the solver was
\* given for it (recipeToSolverInput: frequencyLimit = recipe.frequency).
RerollRecipe(id, category, calories, protein, fat, carbs, frequency) ==
    [id |-> id, category |-> category, calories |-> calories, protein |-> protein,
     fat |-> fat, carbs |-> carbs, fiber |-> 0, frequency |-> frequency]

RerollPool ==
    << RerollRecipe("L1", "lunch", 500, 30, 10, 50, 3),
       RerollRecipe("L2", "lunch", 550, 35, 10, 50, 1),
       RerollRecipe("L3", "lunch", 500, 30, 25, 50, 3),
       RerollRecipe("L4", "lunch", 700, 30, 10, 50, 3),
       RerollRecipe("D1", "dinner", 600, 40, 20, 60, 3),
       RerollRecipe("D2", "dinner", 800, 20, 20, 60, 3),
       RerollRecipe("D3", "dinner", 650, 45, 20, 60, 1),
       RerollRecipe("L5", "lunch", 450, 25, 10, 50, 2) >>

NoRecipe == RerollRecipe("", "", 0, 0, 0, 0, 0)

\* The recipe lists handleReroll may hold in allRecipes.
AllRecipesChoices ==
    {RerollPool,
     SubSeq(RerollPool, 3, 7),
     SubSeq(RerollPool, 5, 8),
     <<RerollPool[1], RerollPool[5]>>}

\* The plans handleGenerate puts on the screen: per day one meal for lunch and
\* one for dinner (lunch may hold a dinner recipe when the slots are combined),
\* no recipe in both slots, no recipe more often than its frequency limit,
\* totals as solvedPlanToMealPlan sums them.
ShownPlans ==
    LET lunchOf == {RerollPool[1], RerollPool[4], RerollPool[5]}
        dinnerOf == {RerollPool[5], RerollPool[6]}
        dayPlan(n, pair) ==
            recomputeDayTotals(
                [day |-> DayNames[n],
                 meals |-> <<[slot |-> "lunch", recipe |-> pair[1]],
                             [slot |-> "dinner", recipe |-> pair[2]]>>,
                 totalCalories |-> 0, totalProtein |-> 0, totalFat |-> 0, totalCarbs |-> 0])
        choices == UNION {[1..n -> lunchOf \X dinnerOf] : n \in 1..MaxRerollDays}
        days(ch) == [n \in DOMAIN ch |-> dayPlan(n, ch[n])]
    IN  {[label |-> "Plan 1", days |-> days(ch),
          macroSummary |-> computeMacroSummary(days(ch)), updatedAt |-> "unset"] :
            ch \in {c \in choices :
                      /\ \A i, j \in DOMAIN c : c[i][1].id # c[j][2].id
                      /\ \A i \in DOMAIN c : \A k \in {1, 2} :
                            Cardinality({j \in DOMAIN c : c[j][k].id = c[i][k].id})
                                <= c[i][k].frequency}}

RerollDays == {DayNames[n] : n \in 1..(MaxRerollDays + 1)}
RerollSlots == {"lunch", "dinner", "snack"}

\* handleReroll when rerollMeal returns null: the plan stays as it is.
HandleRerollNoResult ==
    /\ rr.pc = "shown" /\ rr.rerolls < MaxRerolls
    /\ \E day \in RerollDays, slot \in RerollSlots :
          /\ \/ ~HasMealAt(rr.plan, day, slot)
             \/ /\ HasMealAt(rr.plan, day, slot)
                /\ Candidates(rr.plan, day, slot, rr.allRecipes) = <<>>
          /\ rr' = [rr EXCEPT !.rerolls = @ + 1,
                              !.last = [kind |-> "null", input |-> rr.plan, day |-> day,
                                        slot |-> slot, best |-> NoRecipe]]
    /\ RerollIdle

\* handleReroll when the tolerance pool is not empty: a random member of it.
HandleRerollRandom ==
    /\ rr.pc = "shown" /\ rr.rerolls < MaxRerolls
    /\ \E day \in RerollDays, slot \in RerollSlots :
          /\ HasMealAt(rr.plan, day, slot)
          /\ \E idx \in DOMAIN Eligible(rr.plan, day, slot, rr.allRecipes) :
                LET best == Eligible(rr.plan, day, slot, rr.allRecipes)[idx]
                IN  rr' = [rr EXCEPT
                            !.rerolls = @ + 1,
                            !.plan = UpdatedPlan(rr.plan, slot,
                                                 CurrentRecipe(rr.plan, day, slot), best),
                            !.last = [kind |-> "random", input |-> rr.plan, day |-> day,
                                      slot |-> slot, best |-> best]]
    /\ RerollIdle

\* handleReroll when the tolerance pool is empty: the closest candidate.
HandleRerollClosest ==
    /\ rr.pc = "shown" /\ rr.rerolls < MaxRerolls
    /\ \E day \in RerollDays, slot \in RerollSlots :
          /\ HasMealAt(rr.plan, day, slot)
          /\ Candidates(rr.plan, day, slot, rr.allRecipes) # <<>>
          /\ Eligible(rr.plan, day, slot, rr.allRecipes) = <<>>
          /\ LET best == Closest(rr.plan, day, slot, rr.allRecipes)
             IN  rr' = [rr EXCEPT
                         !.rerolls = @ + 1,
                         !.plan = UpdatedPlan(rr.plan, slot,
                                              CurrentRecipe(rr.plan, day, slot), best),
                         !.last = [kind |-> "closest", input |-> rr.plan, day |-> day,
                                   slot |-> slot, best |-> best]]
    /\ RerollIdle

InitReroll ==
    /\ \E plan \in ShownPlans, allRecipes \in AllRecipesChoices :
          rr = [pc |-> "shown", plan |-> plan, allRecipes |-> allRecipes, rerolls |-> 0,
                last |-> [kind |-> "none", input |-> plan, day |-> "", slot |-> "",
                          best |-> NoRecipe]]
    /\ sv = [pc |-> "off"] /\ sh = [pc |-> "off"] /\ rc = [pc |-> "off"]
    /\ mealPlans = <<>> /\ planPc = "idle" /\ planArg = 0
    /\ clock = 1 /\ local = EmptyTable /\ server = EmptyTable /\ serverToken = FALSE
    /\ lastSyncAt = NULL /\ prefs = "p1" /\ serverPrefs = EmptyPrefs /\ pc = "idle"
    /\ lastSync = NULL /\ toPull = <<>> /\ localChanges = <<>> /\ result = EmptyResult
    /\ touched = {} /\ remoteCalls = 0 /\ runs = 0 /\ envBudget = 0 /\ hist = NoHistory

RerollNext == HandleRerollNoResult \/ HandleRerollRandom \/ HandleRerollClosest

SpecReroll == InitReroll /\ [][RerollNext]_vars

-----------------------------------------------------------------------------
(* Claims about rerollMeal, checked under SpecReroll. *)

\* A step in which rerollMeal returned a result.
RerollReturned == rr'.rerolls = rr.rerolls + 1 /\ rr'.last.kind \in {"random", "closest"}

\* The recipe at (day D, slot S) of the input of the step.
OldRecipe == CurrentRecipe(rr.plan, rr'.last.day, rr'.last.slot)

\* The recipe a day plan holds at a slot ("" if it has no such meal).
RecipeIdAt(dayPlan, slot) ==
    IF FindMeal(dayPlan, slot) = 0 THEN ""
    ELSE dayPlan.meals[FindMeal(dayPlan, slot)].recipe.id

\* P3 for a plan and a block size: the recipe of each slot is the same on all
\* days of a block.
BlockGrouped(plan, blockSize) ==
    LET blocks == BlocksFrom(0, blockSize, Len(plan.days))
    IN  \A b \in DOMAIN blocks : \A d1, d2 \in blocks[b] :
            \A slot \in RerollSlots :
                RecipeIdAt(plan.days[d1 + 1], slot) = RecipeIdAt(plan.days[d2 + 1], slot)

\* C13 (P6, reroll frame): when rerollMeal(plan, D, S, recipes) returns a
\* result, the returned plan has the same days in the same order and the same
\* slots per day as the input, every meal is the input's except those at slot S
\* on days where the input held the old recipe, and the input is not mutated.
C13_RerollFrame ==
    [][RerollReturned =>
        /\ rr'.last.input = rr.plan
        /\ DOMAIN rr'.plan.days = DOMAIN rr.plan.days
        /\ \A d \in DOMAIN rr.plan.days :
              /\ rr'.plan.days[d].day = rr.plan.days[d].day
              /\ DOMAIN rr'.plan.days[d].meals = DOMAIN rr.plan.days[d].meals
              /\ \A m \in DOMAIN rr.plan.days[d].meals :
                    /\ rr'.plan.days[d].meals[m].slot = rr.plan.days[d].meals[m].slot
                    /\ ~(/\ rr.plan.days[d].meals[m].slot = rr'.last.slot
                         /\ rr.plan.days[d].meals[m].recipe.id = OldRecipe.id)
                       => rr'.plan.days[d].meals[m] = rr.plan.days[d].meals[m]]_vars

\* A reroll has returned a plan of two days in which only one day held the old
\* recipe in the slot.
C13_Witness ==
    /\ rr.last.kind \in {"random", "closest"}
    /\ Len(rr.plan.days) = 2
    /\ \E d \in DOMAIN rr.plan.days :
          RecipeIdAt(rr.plan.days[d], rr.last.slot)
              = RecipeIdAt(rr.last.input.days[d], rr.last.slot)

\* C14 (reroll block replacement): rerollMeal puts the one chosen recipe at
\* every (day, slot S) where the input held the old recipe; if the input
\* satisfies the block grouping P3 so does the returned plan, and the old recipe
\* no longer occurs in slot S on any day.
C14_RerollBlocks ==
    [][RerollReturned =>
        /\ \A d \in DOMAIN rr.plan.days :
              RecipeIdAt(rr.plan.days[d], rr'.last.slot) = OldRecipe.id
              => RecipeIdAt(rr'.plan.days[d], rr'.last.slot) = rr'.last.best.id
        /\ \A blockSize \in 1..Len(rr.plan.days) :
              BlockGrouped(rr.plan, blockSize) => BlockGrouped(rr'.plan, blockSize)
        /\ \A d \in DOMAIN rr'.plan.days :
              RecipeIdAt(rr'.plan.days[d], rr'.last.slot) # OldRecipe.id]_vars

\* A reroll has replaced the recipe of a block of two days.
C14_Witness ==
    /\ rr.last.kind \in {"random", "closest"}
    /\ Len(rr.plan.days) >= 2
    /\ BlockGrouped(rr.last.input, 2)
    /\ RecipeIdAt(rr.plan.days[1], rr.last.slot) = rr.last.best.id
    /\ RecipeIdAt(rr.plan.days[2], rr.last.slot) = rr.last.best.id

\* The tolerance window of the claim.
InWindow(c, old) ==
    /\ Abs(c.calories - old.calories) <= 100 /\ Abs(c.protein - old.protein) <= 10
    /\ Abs(c.fat - old.fat) <= 10 /\ Abs(c.carbs - old.carbs) <= 10

\* The candidates of the step: recipes of the slot's category that the input
\* plan does not use.
StepCandidates ==
    {r \in Range(rr.allRecipes) :
        /\ r.category = rr'.last.slot
        /\ \A d \in DOMAIN rr.plan.days : \A m \in DOMAIN rr.plan.days[d].meals :
              rr.plan.days[d].meals[m].recipe.id # r.id}

\* C15 (reroll tolerance): if some candidate is within the tolerance window of
\* the old recipe, the chosen recipe is within it for every outcome of the
\* random choice, hence the calorie total of every affected day changes by at
\* most 100; only when no candidate is in the window the chosen recipe is a
\* candidate of least normalized squared macro distance to the old recipe.
C15_RerollTolerance ==
    [][RerollReturned =>
        /\ rr'.last.best \in StepCandidates
        /\ (\E c \in StepCandidates : InWindow(c, OldRecipe))
           => /\ InWindow(rr'.last.best, OldRecipe)
              /\ \A d \in DOMAIN rr.plan.days :
                    Abs(rr'.plan.days[d].totalCalories - rr.plan.days[d].totalCalories) <= 100
        /\ ~InWindow(rr'.last.best, OldRecipe)
           => /\ \A c \in StepCandidates : ~InWindow(c, OldRecipe)
              /\ \A c \in StepCandidates :
                    macroDistance(rr'.last.best, OldRecipe) <= macroDistance(c, OldRecipe)]_vars

\* A random choice among two recipes in the window has been made, the calories
\* of the day changed.
C15_Witness ==
    /\ rr.last.kind = "random"
    /\ Len(Eligible(rr.last.input, rr.last.day, rr.last.slot, rr.allRecipes)) >= 2
    /\ \E d \in DOMAIN rr.plan.days :
          rr.plan.days[d].totalCalories # rr.last.input.days[d].totalCalories

\* The closest candidate was taken because none was in the window.
C15_WitnessClosest ==
    /\ rr.last.kind = "closest"
    /\ Cardinality({r \in Range(rr.allRecipes) : r.category = rr.last.slot}) >= 3

\* The recipe ids that occur anywhere in a plan.
IdsInPlan(plan) ==
    UNION {{plan.days[d].meals[m].recipe.id : m \in DOMAIN plan.days[d].meals} :
              d \in DOMAIN plan.days}

\* rerollMeal has nothing to work on: the day is absent, the slot is absent
\* on that day, or no recipe of category S outside the plan exists.
NothingToReroll(plan, day, slot, allRecipes) ==
    \/ ~ \E d \in DOMAIN plan.days : plan.days[d].day = day
    \/ \E d \in DOMAIN plan.days :
          /\ plan.days[d].day = day
          /\ \A e \in DOMAIN plan.days : plan.days[e].day = day => d <= e
          /\ ~ \E m \in DOMAIN plan.days[d].meals : plan.days[d].meals[m].slot = slot
    \/ ~ \E i \in DOMAIN allRecipes :
            allRecipes[i].category = slot /\ allRecipes[i].id \notin IdsInPlan(plan)

\* C25 (reroll candidates): whenever rerollMeal returns a result, the new
\* recipe has category equal to slot S, differs from the old recipe, and its
\* id occurs nowhere in the input plan; rerollMeal returns null and changes
\* nothing when the day is absent, the slot is absent on that day, or no
\* recipe of category S outside the plan exists.
C25_RerollCandidates ==
    [][rr'.rerolls = rr.rerolls + 1
       => /\ RerollReturned
             => /\ rr'.last.best.category = rr'.last.slot
                /\ rr'.last.best.id # OldRecipe.id
                /\ rr'.last.best.id \notin IdsInPlan(rr.plan)
                /\ \E i \in DOMAIN rr.allRecipes : rr.allRecipes[i] = rr'.last.best
          /\ NothingToReroll(rr.plan, rr'.last.day, rr'.last.slot, rr.allRecipes)
             => (rr'.last.kind = "null" /\ rr'.plan = rr.plan)]_vars

\* rerollMeal has returned a recipe although another recipe of the slot's
\* category was at hand: that one is used elsewhere in the input plan.
C25_Witness ==
    /\ rr.last.kind \in {"random", "closest"}
    /\ \E i \in DOMAIN rr.allRecipes :
          /\ rr.allRecipes[i].category = rr.last.slot
          /\ rr.allRecipes[i].id \in IdsInPlan(rr.last.input)
          /\ rr.allRecipes[i].id # CurrentRecipe(rr.last.input, rr.last.day, rr.last.slot).id

\* P2 for a plan on the screen: every recipe of the plan occurs in at most
\* as many meals as its frequency limit.
FrequencyRespected(plan) ==
    \A d \in DOMAIN plan.days : \A m \in DOMAIN plan.days[d].meals :
        LET r == plan.days[d].meals[m].recipe
        IN  Cardinality({e \in (DOMAIN plan.days) \X (1..4) :
                            /\ e[2] \in DOMAIN plan.days[e[1]].meals
                            /\ plan.days[e[1]].meals[e[2]].recipe.id = r.id})
                <= r.frequency

\* C29 (reroll preserves the frequency limit): if the input plan satisfies P2,
\* then after a successful rerollMeal every recipe of the resulting plan, the
\* replacement included, still occurs at most its own frequency limit times.
C29_RerollKeepsFrequencyLimit ==
    [][(FrequencyRespected(rr.plan) /\ RerollReturned)
       => FrequencyRespected(rr'.plan)]_vars

-----------------------------------------------------------------------------
(* Ingredient parser and shopping list (lib/utils/shopping.ts).             *)
(* A string is a sequence of tokens, the parts between its blanks; a token   *)
(* is the sequence of its characters.  The empty token stands for the gap    *)
(* that a removed part leaves between two blanks.                            *)

Empty == <<>>

STRIP_WORDS ==
    {<<"l", "a", "r", "g", "e">>, <<"m", "e", "d", "i", "u", "m">>,
     <<"s", "m", "a", "l", "l">>,
     <<"e", "x", "t", "r", "a", "-", "l", "a", "r", "g", "e">>,
     <<"t", "h", "i", "n">>, <<"t", "h", "i", "c", "k">>,
     <<"d", "i", "c", "e", "d">>, <<"c", "h", "o", "p", "p", "e", "d">>,
     <<"m", "i", "n", "c", "e", "d">>, <<"s", "l", "i", "c", "e", "d">>,
     <<"s", "h", "r", "e", "d", "d", "e", "d">>,
     <<"g", "r", "a", "t", "e", "d">>, <<"c", "r", "u", "s", "h", "e", "d">>,
     <<"g", "r", "o", "u", "n", "d">>, <<"m", "a", "s", "h", "e", "d">>,
     <<"j", "u", "l", "i", "e", "n", "n", "e", "d">>,
     <<"c", "u", "b", "e", "d">>, <<"h", "a", "l", "v", "e", "d">>,
     <<"q", "u", "a", "r", "t", "e", "r", "e", "d">>, <<"t", "o", "r", "n">>,
     <<"p", "e", "e", "l", "e", "d">>, <<"t", "r", "i", "m", "m", "e", "d">>,
     <<"d", "e", "v", "e", "i", "n", "e", "d">>,
     <<"d", "e", "b", "o", "n", "e", "d">>,
     <<"s", "o", "f", "t", "e", "n", "e", "d">>,
     <<"m", "e", "l", "t", "e", "d">>, <<"d", "i", "v", "i", "d", "e", "d">>,
     <<"p", "a", "c", "k", "e", "d">>, <<"s", "i", "f", "t", "e", "d">>,
     <<"b", "e", "a", "t", "e", "n">>, <<"w", "h", "i", "s", "k", "e", "d">>,
     <<"s", "c", "r", "a", "m", "b", "l", "e", "d">>,
     <<"r", "i", "n", "s", "e", "d">>, <<"d", "r", "a", "i", "n", "e", "d">>,
     <<"s", "t", "r", "a", "i", "n", "e", "d">>, <<"w", "r", "u", "n", "g">>,
     <<"u", "n", "d", "r", "a", "i", "n", "e", "d">>,
     <<"u", "n", "p", "e", "e", "l", "e", "d">>,
     <<"u", "n", "c", "o", "o", "k", "e", "d">>,
     <<"u", "n", "s", "k", "i", "n", "n", "e", "d">>,
     <<"u", "n", "t", "r", "i", "m", "m", "e", "d">>,
     <<"p", "i", "t", "t", "e", "d">>, <<"s", "e", "e", "d", "e", "d">>,
     <<"c", "o", "r", "e", "d">>, <<"d", "e", "s", "e", "e", "d", "e", "d">>,
     <<"s", "t", "e", "m", "m", "e", "d">>,
     <<"t", "o", "a", "s", "t", "e", "d">>,
     <<"r", "o", "a", "s", "t", "e", "d">>,
     <<"b", "l", "a", "n", "c", "h", "e", "d">>,
     <<"s", "t", "e", "a", "m", "e", "d">>, <<"w", "a", "r", "m", "e", "d">>,
     <<"c", "o", "o", "l", "e", "d">>, <<"c", "h", "i", "l", "l", "e", "d">>,
     <<"s", "q", "u", "e", "e", "z", "e", "d">>,
     <<"j", "u", "i", "c", "e", "d">>, <<"z", "e", "s", "t", "e", "d">>,
     <<"p", "r", "e", "s", "s", "e", "d">>, <<"z", "e", "s", "t">>,
     <<"r", "e", "m", "o", "v", "e", "d">>, <<"e", "x", "c", "e", "s", "s">>,
     <<"l", "i", "q", "u", "i", "d">>, <<"c", "a", "s", "i", "n", "g">>,
     <<"c", "a", "s", "i", "n", "g", "s">>, <<"c", "u", "t">>,
     <<"s", "p", "l", "i", "t">>, <<"c", "l", "e", "a", "n", "e", "d">>,
     <<"w", "a", "s", "h", "e", "d">>, <<"p", "a", "t", "t", "e", "d">>,
     <<"d", "r", "y">>, <<"f", "i", "n", "e", "l", "y">>,
     <<"r", "o", "u", "g", "h", "l", "y">>, <<"t", "h", "i", "n", "l", "y">>,
     <<"f", "i", "r", "m", "l", "y">>, <<"g", "e", "n", "t", "l", "y">>,
     <<"w", "e", "l", "l">>, <<"f", "r", "e", "s", "h", "l", "y">>,
     <<"l", "i", "g", "h", "t", "l", "y">>,
     <<"c", "o", "a", "r", "s", "e", "l", "y">>,
     <<"l", "o", "o", "s", "e", "l", "y">>,
     <<"t", "i", "g", "h", "t", "l", "y">>, <<"e", "n", "d">>,
     <<"e", "n", "d", "s">>, <<"s", "t", "e", "m">>,
     <<"s", "t", "e", "m", "s">>, <<"t", "o", "p">>, <<"t", "o", "p", "s">>,
     <<"t", "i", "p">>, <<"t", "i", "p", "s">>, <<"e", "a", "c", "h">>,
     <<"f", "r", "e", "s", "h">>, <<"f", "r", "o", "z", "e", "n">>,
     <<"d", "r", "i", "e", "d">>, <<"c", "a", "n", "n", "e", "d">>,
     <<"c", "o", "o", "k", "e", "d">>, <<"r", "a", "w">>,
     <<"r", "i", "p", "e">>, <<"w", "a", "r", "m">>, <<"c", "o", "l", "d">>,
     <<"h", "o", "t">>,
     <<"r", "o", "o", "m", "-", "t", "e", "m", "p", "e", "r", "a", "t", "u", "r", "e">>,
     <<"t", "h", "a", "w", "e", "d">>,
     <<"b", "o", "n", "e", "l", "e", "s", "s">>,
     <<"s", "k", "i", "n", "l", "e", "s", "s">>,
     <<"b", "o", "n", "e", "-", "i", "n">>,
     <<"s", "k", "i", "n", "-", "o", "n">>,
     <<"o", "p", "t", "i", "o", "n", "a", "l">>, <<"a", "b", "o", "u", "t">>,
     <<"a", "p", "p", "r", "o", "x", "i", "m", "a", "t", "e", "l", "y">>,
     <<"u", "n", "s", "a", "l", "t", "e", "d">>,
     <<"s", "a", "l", "t", "e", "d">>,
     <<"u", "n", "s", "w", "e", "e", "t", "e", "n", "e", "d">>,
     <<"s", "w", "e", "e", "t", "e", "n", "e", "d">>, <<"o", "f">>,
     <<"i", "n", "t", "o">>, <<"f", "o", "r">>, <<"t", "h", "e">>,
     <<"a", "n", "d">>, <<"o", "r">>, <<"w", "i", "t", "h">>}

SKIP_INGREDIENTS ==
    {<<<<"w", "a", "t", "e", "r">>>>, <<<<"i", "c", "e">>>>,
     <<<<"i", "c", "e">>, <<"c", "u", "b", "e">>>>,
     <<<<"i", "c", "e">>, <<"w", "a", "t", "e", "r">>>>,
     <<<<"b", "o", "i", "l", "i", "n", "g">>, <<"w", "a", "t", "e", "r">>>>,
     <<<<"w", "a", "r", "m">>, <<"w", "a", "t", "e", "r">>>>,
     <<<<"c", "o", "l", "d">>, <<"w", "a", "t", "e", "r">>>>,
     <<<<"h", "o", "t">>, <<"w", "a", "t", "e", "r">>>>,
     <<<<"t", "a", "p">>, <<"w", "a", "t", "e", "r">>>>,
     <<<<"s", "a", "l", "t">>, <<"p", "e", "p", "p", "e", "r">>>>,
     <<<<"c", "o", "o", "k", "i", "n", "g">>, <<"s", "p", "r", "a", "y">>>>,
     <<<<"n", "o", "n", "s", "t", "i", "c", "k">>, <<"s", "p", "r", "a", "y">>>>}

\* IRREGULAR_PLURALS as <<plural, singular>> pairs.
IRREGULAR_PLURALS ==
    {<<<<"l", "e", "a", "v", "e", "s">>, <<"l", "e", "a", "f">>>>,
     <<<<"h", "a", "l", "v", "e", "s">>, <<"h", "a", "l", "f">>>>,
     <<<<"l", "o", "a", "v", "e", "s">>, <<"l", "o", "a", "f">>>>,
     <<<<"c", "a", "l", "v", "e", "s">>, <<"c", "a", "l", "f">>>>,
     <<<<"s", "h", "e", "l", "v", "e", "s">>, <<"s", "h", "e", "l", "f">>>>,
     <<<<"k", "n", "i", "v", "e", "s">>, <<"k", "n", "i", "f", "e">>>>}

\* CATEGORY_KEYWORDS in the order of the object: <<category, keywords in order>>.
CATEGORY_KEYWORDS ==
    << <<"produce",
          <<<<<<"l", "e", "t", "t", "u", "c", "e">>>>,
            <<<<"t", "o", "m", "a", "t", "o">>>>,
            <<<<"o", "n", "i", "o", "n">>>>,
            <<<<"g", "a", "r", "l", "i", "c">>>>,
            <<<<"p", "e", "p", "p", "e", "r">>>>,
            <<<<"c", "a", "r", "r", "o", "t">>>>,
            <<<<"b", "r", "o", "c", "c", "o", "l", "i">>>>,
            <<<<"s", "p", "i", "n", "a", "c", "h">>>>,
            <<<<"k", "a", "l", "e">>>>,
            <<<<"a", "v", "o", "c", "a", "d", "o">>>>,
            <<<<"l", "e", "m", "o", "n">>>>, <<<<"l", "i", "m", "e">>>>,
            <<<<"b", "a", "n", "a", "n", "a">>>>,
            <<<<"a", "p", "p", "l", "e">>>>, <<<<"b", "e", "r", "r", "y">>>>,
            <<<<"b", "e", "r", "r", "i", "e", "s">>>>,
            <<<<"c", "e", "l", "e", "r", "y">>>>,
            <<<<"c", "u", "c", "u", "m", "b", "e", "r">>>>,
            <<<<"p", "o", "t", "a", "t", "o">>>>,
            <<<<"m", "u", "s", "h", "r", "o", "o", "m">>>>,
            <<<<"z", "u", "c", "c", "h", "i", "n", "i">>>>,
            <<<<"s", "q", "u", "a", "s", "h">>>>, <<<<"c", "o", "r", "n">>>>,
            <<<<"p", "e", "a", "s">>>>, <<<<"b", "e", "a", "n", "s">>>>,
            <<<<"g", "i", "n", "g", "e", "r">>>>,
            <<<<"c", "i", "l", "a", "n", "t", "r", "o">>>>,
            <<<<"p", "a", "r", "s", "l", "e", "y">>>>,
            <<<<"b", "a", "s", "i", "l">>>>, <<<<"m", "i", "n", "t">>>>,
            <<<<"f", "r", "u", "i", "t">>>>,
            <<<<"v", "e", "g", "e", "t", "a", "b", "l", "e">>>>>> >>,
       <<"protein",
          <<<<<<"c", "h", "i", "c", "k", "e", "n">>>>,
            <<<<"b", "e", "e", "f">>>>, <<<<"p", "o", "r", "k">>>>,
            <<<<"t", "u", "r", "k", "e", "y">>>>,
            <<<<"s", "a", "l", "m", "o", "n">>>>, <<<<"f", "i", "s", "h">>>>,
            <<<<"s", "h", "r", "i", "m", "p">>>>, <<<<"t", "o", "f", "u">>>>,
            <<<<"e", "g", "g">>>>, <<<<"e", "g", "g", "s">>>>,
            <<<<"b", "a", "c", "o", "n">>>>,
            <<<<"s", "a", "u", "s", "a", "g", "e">>>>,
            <<<<"s", "t", "e", "a", "k">>>>,
            <<<<"g", "r", "o", "u", "n", "d">>>>>> >>,
       <<"dairy",
          <<<<<<"m", "i", "l", "k">>>>, <<<<"c", "h", "e", "e", "s", "e">>>>,
            <<<<"y", "o", "g", "u", "r", "t">>>>,
            <<<<"b", "u", "t", "t", "e", "r">>>>,
            <<<<"c", "r", "e", "a", "m">>>>,
            <<<<"s", "o", "u", "r">>, <<"c", "r", "e", "a", "m">>>>,
            <<<<"m", "o", "z", "z", "a", "r", "e", "l", "l", "a">>>>,
            <<<<"c", "h", "e", "d", "d", "a", "r">>>>,
            <<<<"p", "a", "r", "m", "e", "s", "a", "n">>>>>> >>,
       <<"grains",
          <<<<<<"r", "i", "c", "e">>>>, <<<<"p", "a", "s", "t", "a">>>>,
            <<<<"b", "r", "e", "a", "d">>>>, <<<<"f", "l", "o", "u", "r">>>>,
            <<<<"o", "a", "t", "s">>>>, <<<<"c", "e", "r", "e", "a", "l">>>>,
            <<<<"t", "o", "r", "t", "i", "l", "l", "a">>>>,
            <<<<"n", "o", "o", "d", "l", "e">>>>,
            <<<<"q", "u", "i", "n", "o", "a">>>>,
            <<<<"c", "o", "u", "s", "c", "o", "u", "s">>>>>> >>,
       <<"pantry",
          <<<<<<"o", "i", "l">>>>, <<<<"v", "i", "n", "e", "g", "a", "r">>>>,
            <<<<"s", "a", "u", "c", "e">>>>, <<<<"s", "a", "l", "t">>>>,
            <<<<"p", "e", "p", "p", "e", "r">>>>,
            <<<<"s", "u", "g", "a", "r">>>>, <<<<"h", "o", "n", "e", "y">>>>,
            <<<<"s", "p", "i", "c", "e">>>>, <<<<"c", "u", "m", "i", "n">>>>,
            <<<<"p", "a", "p", "r", "i", "k", "a">>>>,
            <<<<"c", "i", "n", "n", "a", "m", "o", "n">>>>,
            <<<<"v", "a", "n", "i", "l", "l", "a">>>>,
            <<<<"b", "r", "o", "t", "h">>>>, <<<<"s", "t", "o", "c", "k">>>>,
            <<<<"c", "a", "n">>>>, <<<<"c", "a", "n", "n", "e", "d">>>>,
            <<<<"d", "r", "i", "e", "d">>>>>> >> >>

\* UNIT_NORMALIZE as <<plural, singular>> pairs.
UNIT_NORMALIZE ==
    {<<<<"c", "u", "p", "s">>, <<"c", "u", "p">>>>,
     <<<<"l", "b", "s">>, <<"l", "b">>>>,
     <<<<"c", "a", "n", "s">>, <<"c", "a", "n">>>>,
     <<<<"c", "l", "o", "v", "e", "s">>, <<"c", "l", "o", "v", "e">>>>,
     <<<<"s", "l", "i", "c", "e", "s">>, <<"s", "l", "i", "c", "e">>>>,
     <<<<"p", "i", "e", "c", "e", "s">>, <<"p", "i", "e", "c", "e">>>>,
     <<<<"b", "u", "n", "c", "h", "e", "s">>, <<"b", "u", "n", "c", "h">>>>,
     <<<<"l", "i", "t", "e", "r", "s">>, <<"l", "i", "t", "e", "r">>>>,
     <<<<"t", "a", "b", "l", "e", "s", "p", "o", "o", "n", "s">>, <<"t", "a", "b", "l", "e", "s", "p", "o", "o", "n">>>>,
     <<<<"t", "e", "a", "s", "p", "o", "o", "n", "s">>, <<"t", "e", "a", "s", "p", "o", "o", "n">>>>,
     <<<<"o", "u", "n", "c", "e", "s">>, <<"o", "u", "n", "c", "e">>>>,
     <<<<"p", "o", "u", "n", "d", "s">>, <<"p", "o", "u", "n", "d">>>>,
     <<<<"g", "r", "a", "m", "s">>, <<"g", "r", "a", "m">>>>,
     <<<<"t", "b", "s", "p", "s">>, <<"t", "b", "s", "p">>>>,
     <<<<"t", "s", "p", "s">>, <<"t", "s", "p">>>>}

\* The words the unit pattern of parseIngredient accepts.
UnitWords ==
    {<<"c", "u", "p">>, <<"c", "u", "p", "s">>, <<"t", "b", "s">>,
     <<"t", "b", "s", "p">>, <<"t", "s">>, <<"t", "s", "p">>, <<"o", "z">>,
     <<"o", "u", "n", "c", "e">>, <<"o", "u", "n", "c", "e", "s">>,
     <<"l", "b">>, <<"l", "b", "s">>, <<"p", "o", "u", "n", "d">>,
     <<"p", "o", "u", "n", "d", "s">>, <<"g">>, <<"g", "r", "a", "m">>,
     <<"g", "r", "a", "m", "s">>, <<"k", "g">>, <<"m", "l">>,
     <<"l", "i", "t", "e", "r">>, <<"l", "i", "t", "e", "r", "s">>,
     <<"c", "l", "o", "v", "e">>, <<"c", "l", "o", "v", "e", "s">>,
     <<"c", "a", "n">>, <<"c", "a", "n", "s">>, <<"b", "u", "n", "c", "h">>,
     <<"b", "u", "n", "c", "h", "e", "s">>, <<"p", "i", "n", "c", "h">>,
     <<"d", "a", "s", "h">>, <<"s", "l", "i", "c", "e">>,
     <<"s", "l", "i", "c", "e", "s">>, <<"p", "i", "e", "c", "e">>,
     <<"p", "i", "e", "c", "e", "s">>,
     <<"t", "a", "b", "l", "e", "s", "p", "o", "o", "n">>,
     <<"t", "a", "b", "l", "e", "s", "p", "o", "o", "n", "s">>,
     <<"t", "e", "a", "s", "p", "o", "o", "n">>,
     <<"t", "e", "a", "s", "p", "o", "o", "n", "s">>,
     <<"s", "t", "a", "l", "k">>, <<"s", "t", "a", "l", "k", "s">>,
     <<"h", "e", "a", "d">>, <<"h", "e", "a", "d", "s">>,
     <<"s", "p", "r", "i", "g">>, <<"s", "p", "r", "i", "g", "s">>}

\* The units of the embedded measurement pattern of normalizeName.
MeasureWords ==
    {<<"o", "u", "n", "c", "e">>, <<"o", "u", "n", "c", "e", "s">>,
     <<"o", "z">>, <<"c", "u", "p">>, <<"c", "u", "p", "s">>,
     <<"t", "b", "s", "p">>, <<"t", "s", "p">>,
     <<"t", "a", "b", "l", "e", "s", "p", "o", "o", "n">>,
     <<"t", "a", "b", "l", "e", "s", "p", "o", "o", "n", "s">>,
     <<"t", "e", "a", "s", "p", "o", "o", "n">>,
     <<"t", "e", "a", "s", "p", "o", "o", "n", "s">>, <<"l", "b">>,
     <<"l", "b", "s">>, <<"p", "o", "u", "n", "d">>,
     <<"p", "o", "u", "n", "d", "s">>, <<"g", "r", "a", "m">>,
     <<"g", "r", "a", "m", "s">>, <<"g">>, <<"k", "g">>, <<"m", "l">>,
     <<"l", "i", "t", "e", "r">>, <<"l", "i", "t", "e", "r", "s">>}

\* TRAILING_PHRASES: the fixed phrases; "for <word>" and "like <word>" are
\* handled by PhraseAt.
TRAILING_PHRASES ==
    {<<<<"t", "o">>, <<"t", "a", "s", "t", "e">>>>,
     <<<<"d", "i", "v", "i", "d", "e", "d">>>>,
     <<<<"o", "r">>, <<"m", "o", "r", "e">>>>,
     <<<<"o", "r">>, <<"t", "o">>, <<"t", "a", "s", "t", "e">>>>,
     <<<<"a", "s">>, <<"n", "e", "e", "d", "e", "d">>>>,
     <<<<"p", "l", "u", "s">>, <<"m", "o", "r", "e">>>>,
     <<<<"a", "t">>, <<"r", "o", "o", "m">>, <<"t", "e", "m", "p", "e", "r", "a", "t", "u", "r", "e">>>>,
     <<<<"r", "o", "o", "m">>, <<"t", "e", "m", "p", "e", "r", "a", "t", "u", "r", "e">>>>,
     <<<<"c", "u", "t">>, <<"i", "n", "t", "o">>>>,
     <<<<"s", "l", "i", "c", "e", "d">>, <<"i", "n", "t", "o">>>>,
     <<<<"t", "o", "r", "n">>, <<"i", "n", "t", "o">>>>,
     <<<<"b", "r", "o", "k", "e", "n">>, <<"i", "n", "t", "o">>>>,
     <<<<"s", "u", "c", "h">>, <<"a", "s">>>>,
     <<<<"p", "r", "e", "f", "e", "r", "a", "b", "l", "y">>>>,
     <<<<"i", "f">>, <<"a", "v", "a", "i", "l", "a", "b", "l", "e">>>>,
     <<<<"s", "t", "o", "r", "e", "-", "b", "o", "u", "g", "h", "t">>>>}

LeadingConjunctions == {<<"a", "n", "d">>, <<"o", "r">>, <<"t", "h", "e", "n">>, <<"p", "l", "u", "s">>}

Digits == {"0", "1", "2", "3", "4", "5", "6", "7", "8", "9"}

\* The characters of an ingredient line in the order of their code units;
\* a character outside ASCII is written by its code point.
CodeOrder ==
    <<" ", "(", ")", ",", "-", ".", "/",
      "0", "1", "2", "3", "4", "5", "6", "7", "8", "9", ":", ";", "_",
      "a", "b", "c", "d", "e", "f", "g", "h", "i", "j", "k", "l", "m",
      "n", "o", "p", "q", "r", "s", "t", "u", "v", "w", "x", "y", "z",
      "U+00BC", "U+00BD", "U+00BE", "U+2013", "U+2014",
      "U+2153", "U+2154", "U+2155", "U+2156", "U+2157", "U+2158",
      "U+2159", "U+215A", "U+215B", "U+215C", "U+215D", "U+215E">>
CharCode(c) == CHOOSE i \in DOMAIN CodeOrder : CodeOrder[i] = c
Letters == {CodeOrder[i] : i \in 21..46}
WordChars == Letters \cup Digits \cup {"_"}         \* \w
TrailingPunctuation == {"-", "U+2013", "U+2014", ".", "/", ":", ";"}

\* UNICODE_FRACTIONS as <<character, numerator, denominator>>.
UNICODE_FRACTIONS ==
    {<<"U+00BD", 1, 2>>, <<"U+2153", 1, 3>>, <<"U+2154", 2, 3>>,
     <<"U+00BC", 1, 4>>, <<"U+00BE", 3, 4>>, <<"U+215B", 1, 8>>,
     <<"U+215C", 3, 8>>, <<"U+215D", 5, 8>>, <<"U+215E", 7, 8>>,
     <<"U+2155", 1, 5>>, <<"U+2156", 2, 5>>, <<"U+2157", 3, 5>>,
     <<"U+2158", 4, 5>>, <<"U+2159", 1, 6>>, <<"U+215A", 5, 6>>}

\* A quantity is a JS number; the model keeps it as the reduced fraction
\* <<numerator, denominator>>.
Rat(n, d) == LET g == Gcd(n, d) IN <<n \div g, d \div g>>
RatAdd(a, b) == Rat(a[1] * b[2] + b[1] * a[2], a[2] * b[2])
RatMul(a, b) == Rat(a[1] * b[1], a[2] * b[2])
Zero == <<0, 1>>
One == <<1, 1>>

\* Math.round(q * 100) / 100
RoundHundredths(q) == Rat((200 * q[1] + q[2]) \div (2 * q[2]), 100)

\* ---- strings ----
StartsWith(w, prefix) == Len(w) >= Len(prefix) /\ SubSeq(w, 1, Len(prefix)) = prefix
EndsWith(w, suffix) ==
    Len(w) >= Len(suffix) /\ SubSeq(w, Len(w) - Len(suffix) + 1, Len(w)) = suffix
DropFirst(w, n) == SubSeq(w, n + 1, Len(w))
DropLast(w, n) == SubSeq(w, 1, Len(w) - n)
IndexOf(s, c) ==
    IF \E i \in DOMAIN s : s[i] = c
    THEN CHOOSE i \in DOMAIN s : s[i] = c /\ \A j \in 1..(i - 1) : s[j] # c
    ELSE 0

\* The length of the longest prefix (suffix) of w made of characters of set.
RECURSIVE LeadRun(_, _)
LeadRun(w, set) ==
    IF w = <<>> \/ w[1] \notin set THEN 0 ELSE 1 + LeadRun(Tail(w), set)
RECURSIVE TrailRun(_, _)
TrailRun(w, set) ==
    IF w = <<>> \/ w[Len(w)] \notin set THEN 0 ELSE 1 + TrailRun(DropLast(w, 1), set)

\* The string of a token sequence, and the token sequence of a string.
RECURSIVE Join(_)
Join(ts) ==
    IF ts = <<>> THEN <<>>
    ELSE IF Len(ts) = 1 THEN ts[1]
    ELSE ts[1] \o <<" ">> \o Join(Tail(ts))
RECURSIVE Split(_)
Split(s) ==
    LET i == IndexOf(s, " ")
    IN  IF i = 0 THEN <<s>> ELSE <<SubSeq(s, 1, i - 1)>> \o Split(DropFirst(s, i))
NonEmpty(w) == w # Empty
SkipBlanks(ts) == DropFirst(ts, LeadRun(ts, {Empty}))               \* replace(/^\s+/, "")
Trim(ts) == DropLast(SkipBlanks(ts), TrailRun(SkipBlanks(ts), {Empty}))  \* trim()

\* a < b in the order of Array.prototype.sort on strings
RECURSIVE StringLess(_, _)
StringLess(a, b) ==
    IF b = <<>> THEN FALSE
    ELSE IF a = <<>> THEN TRUE
    ELSE IF a[1] # b[1] THEN CharCode(a[1]) < CharCode(b[1])
    ELSE StringLess(Tail(a), Tail(b))

\* /^\d+\.?\d*$/
IsBareNumber(w) ==
    LET a == LeadRun(w, Digits)
    IN  /\ a >= 1
        /\ \/ a = Len(w)
           \/ w[a + 1] = "." /\ LeadRun(DropFirst(w, a + 1), Digits) = Len(w) - a - 1

\* ---- singularizeWord ----
Irregular(word) == {p \in IRREGULAR_PLURALS : p[1] = word}
singularizeWord(word) ==
    IF Irregular(word) # {} THEN (CHOOSE p \in Irregular(word) : TRUE)[2]
    ELSE IF Len(word) <= 3 THEN word
    ELSE IF EndsWith(word, <<"i", "e", "s">>) THEN DropLast(word, 3) \o <<"y">>
    ELSE IF EndsWith(word, <<"o", "e", "s">>) THEN DropLast(word, 2)
    ELSE IF EndsWith(word, <<"c", "h", "e", "s">>) \/ EndsWith(word, <<"s", "h", "e", "s">>)
         THEN DropLast(word, 2)
    ELSE IF EndsWith(word, <<"s", "e", "s">>) THEN DropLast(word, 2)
    ELSE IF /\ EndsWith(word, <<"s">>)
            /\ ~ EndsWith(word, <<"s", "s">>)
            /\ ~ EndsWith(word, <<"u", "s">>)
         THEN DropLast(word, 1)
    ELSE word

\* ---- categorizeIngredient ----
Includes(s, sub) ==
    \E i \in 1..(Len(s) - Len(sub) + 1) : SubSeq(s, i, i + Len(sub) - 1) = sub
categorizeIngredient(name) ==
    LET nameLower == Join(name)
        hits == {c \in DOMAIN CATEGORY_KEYWORDS :
                    \E k \in DOMAIN CATEGORY_KEYWORDS[c][2] :
                        Includes(nameLower, Join(CATEGORY_KEYWORDS[c][2][k]))}
    IN  IF hits = {} THEN "other"
        ELSE CATEGORY_KEYWORDS[CHOOSE c \in hits : \A e \in hits : c <= e][1]

\* ---- normalizeName, step by step ----
\* name.replace(/\(.*?\)/g, "") on the characters of the string
RECURSIVE removeParentheticals(_)
removeParentheticals(s) ==
    LET open == IndexOf(s, "(")
        close == IF open = 0 THEN 0 ELSE IndexOf(DropFirst(s, open), ")")
    IN  IF open = 0 \/ close = 0 THEN s
        ELSE SubSeq(s, 1, open - 1) \o removeParentheticals(DropFirst(s, open + close))

\* word, then a word boundary, at the start of the token
WordThenBoundary(tok, word) ==
    StartsWith(tok, word) /\ (Len(tok) = Len(word) \/ tok[Len(word) + 1] \notin WordChars)

\* One of the TRAILING_PHRASES alternatives starts at token i.  The tokens of
\* an ingredient line start with a word character and hold no word character
\* after another character, so that a phrase starts where a token starts.
PhraseAt(ts, i) ==
    \/ \E p \in TRAILING_PHRASES :
          /\ i + Len(p) - 1 <= Len(ts)
          /\ \A j \in 1..(Len(p) - 1) : ts[i + j - 1] = p[j]
          /\ WordThenBoundary(ts[i + Len(p) - 1], p[Len(p)])
    \/ /\ ts[i] \in {<<"f", "o", "r">>, <<"l", "i", "k", "e">>}
       /\ i + 1 <= Len(ts)
       /\ ts[i + 1] # Empty
       /\ ts[i + 1][1] \in WordChars

\* name.replace(TRAILING_PHRASES, ""): the match runs from the comma and the
\* blanks before the first phrase to the end of the string.
removeTrailingPhrases(ts) ==
    LET hits == {i \in DOMAIN ts : PhraseAt(ts, i)}
        first == CHOOSE i \in hits : \A j \in hits : i <= j
        before == SubSeq(ts, 1, first - 1)
        kept == DropLast(before, TrailRun(before, {Empty}))
    IN  IF hits = {} THEN ts
        ELSE IF kept # <<>> /\ EndsWith(kept[Len(kept)], <<",">>)
             THEN [kept EXCEPT ![Len(kept)] = DropLast(@, 1)]
        ELSE kept

\* commaIdx = name.indexOf(","); if (commaIdx > 0) name = name.slice(0, commaIdx)
trimAtComma(s) ==
    IF IndexOf(s, ",") - 1 > 0 THEN SubSeq(s, 1, IndexOf(s, ",") - 1) ELSE s

\* name.replace(/[\-–—./:;]+\s*$/, "")
removeTrailingPunctuation(s) ==
    LET blanks == TrailRun(s, {" "})
        marks == TrailRun(DropLast(s, blanks), TrailingPunctuation)
    IN  IF marks >= 1 THEN DropLast(s, blanks + marks) ELSE s

\* name.replace(/\b\d+\.?\d*\s*(ounces?|oz|...)\b\.?/g, ""): a number token,
\* the blanks after it and the unit that starts the next token.
RECURSIVE removeMeasurements(_)
removeMeasurements(ts) ==
    IF ts = <<>> THEN <<>>
    ELSE LET rest == Tail(ts)
             j == LeadRun(rest, {Empty}) + 1
             tok == rest[j]
             unitLen == LeadRun(tok, WordChars)
             afterUnit == DropFirst(tok, unitLen)
             afterDot == IF StartsWith(afterUnit, <<".">>) THEN Tail(afterUnit)
                         ELSE afterUnit
         IN  IF /\ IsBareNumber(ts[1])
                /\ j <= Len(rest)
                /\ SubSeq(tok, 1, unitLen) \in MeasureWords
             THEN <<afterDot>> \o removeMeasurements(DropFirst(rest, j))
             ELSE <<ts[1]>> \o removeMeasurements(rest)

\* name.toLowerCase().split(/\s+/); the letters of the model are lower-case.
\* A string that starts (ends) with a blank yields a first (last) word "".
splitWords(ts) ==
    IF Join(ts) = <<>> THEN <<Empty>>
    ELSE (IF ts[1] = Empty THEN <<Empty>> ELSE <<>>)
         \o SelectSeq(ts, NonEmpty)
         \o (IF ts[Len(ts)] = Empty THEN <<Empty>> ELSE <<>>)

\* while (words.length > 0 && [...].includes(words[0])) words.shift()
RECURSIVE dropLeadingConjunctions(_)
dropLeadingConjunctions(words) ==
    IF words # <<>> /\ words[1] \in LeadingConjunctions
    THEN dropLeadingConjunctions(Tail(words))
    ELSE words

NotStripWord(w) == w \notin STRIP_WORDS
NotBareNumber(w) == ~ IsBareNumber(w)

normalizeName(name) ==
    LET noParens == Split(removeParentheticals(Join(name)))
        noPhrases == removeTrailingPhrases(noParens)
        noComma == trimAtComma(Join(noPhrases))
        noPunct == removeTrailingPunctuation(noComma)
        noMeasure == removeMeasurements(Split(noPunct))
        words == dropLeadingConjunctions(splitWords(noMeasure))
        kept == SelectSeq(SelectSeq(words, NotStripWord), NotBareNumber)
        singular == [i \in DOMAIN kept |-> singularizeWord(kept[i])]
        trimmed == Trim(singular)                   \* words.join(" ").trim()
    IN  IF Len(Join(trimmed)) <= 1 THEN <<>> ELSE trimmed


\* ---- normalizeName applied once and again ----
MaxNameTokens == 2

\* The tokens the names are drawn from: plurals of every suffix rule, strip
\* words, a leading conjunction, a number and a unit, a parenthetical, a
\* token closed by a comma and a trailing phrase.
NameTokens ==
    {<<"c", "u", "t", "s">>, <<"c", "o", "l", "d">>, <<"c", "h", "e", "e", "s", "e", "s">>, <<"b", "e", "r", "r", "i", "e", "s">>, <<"t", "o", "m", "a", "t", "o", "e", "s">>,
     <<"p", "e", "a", "c", "h", "e", "s">>, <<"r", "a", "d", "i", "s", "h", "e", "s">>, <<"g", "l", "a", "s", "s", "e", "s">>, <<"p", "e", "a", "s">>, <<"l", "e", "a", "v", "e", "s">>,
     <<"p", "l", "u", "s">>, <<"m", "i", "l", "k">>, <<"2">>, <<"o", "z">>, <<"(", "x", ")">>, <<"o", "n", "i", "o", "n", ",">>, <<"d", "i", "v", "i", "d", "e", "d">>}
NameInputs ==
    UNION {[1..n -> NameTokens] : n \in 1..MaxNameTokens}

NormalizeIdle == UNCHANGED <<syncVars, planVars, solverVars, rr, rc>>

\* y = normalizeName(x)
NormalizeOnce ==
    /\ sh.pc = "name"
    /\ sh' = [sh EXCEPT !.pc = "once", !.once = normalizeName(sh.x)]
    /\ NormalizeIdle

\* normalizeName(y)
NormalizeAgain ==
    /\ sh.pc = "once"
    /\ sh' = [sh EXCEPT !.pc = "again", !.again = normalizeName(sh.once)]
    /\ NormalizeIdle

InitNormalize ==
    /\ clock = 1 /\ local = EmptyTable /\ server = EmptyTable
    /\ serverToken = FALSE /\ lastSyncAt = NULL
    /\ prefs = "p1" /\ serverPrefs = EmptyPrefs
    /\ pc = "idle" /\ lastSync = NULL /\ toPull = <<>> /\ localChanges = <<>>
    /\ result = EmptyResult /\ touched = {} /\ remoteCalls = 0 /\ runs = 0
    /\ envBudget = 0 /\ hist = NoHistory
    /\ mealPlans = <<>> /\ planPc = "idle" /\ planArg = 0
    /\ sv = [pc |-> "off"]
    /\ rr = [pc |-> "off"]
    /\ rc = [pc |-> "off"]
    /\ \E x \in NameInputs : sh = [pc |-> "name", x |-> x, once |-> <<>>, again |-> <<>>]

NormalizeNext ==
    \/ NormalizeOnce
    \/ NormalizeAgain

SpecNormalize == InitNormalize /\ [][NormalizeNext]_vars


\* C18 (P8): normalizeName is idempotent: normalizing a normalized name gives
\* the same name, also for plurals of the suffix rules and for tokens that
\* become strip words once singularized.
C18_NormalizeIdempotent ==
    sh.pc = "again" => sh.again = sh.once


\* ---- parseIngredient ----
DigitValue(c) == CHOOSE v \in 0..9 : CodeOrder[8 + v] = c
RECURSIVE DigitsValue(_)
DigitsValue(w) ==
    IF w = <<>> THEN 0 ELSE 10 * DigitsValue(DropLast(w, 1)) + DigitValue(w[Len(w)])
RECURSIVE Pow10(_)
Pow10(n) == IF n = 0 THEN 1 ELSE 10 * Pow10(n - 1)

\* the length of the match of \d+\.?\d* (of \d+\/\d+) at the start of a token
NumberLen(tok) ==
    LET a == LeadRun(tok, Digits)
    IN  IF a = 0 THEN 0
        ELSE IF Len(tok) > a /\ tok[a + 1] = "."
             THEN a + 1 + LeadRun(DropFirst(tok, a + 1), Digits)
        ELSE a
FractionLen(tok) ==
    LET a == LeadRun(tok, Digits)
        b == IF a >= 1 /\ Len(tok) > a /\ tok[a + 1] = "/"
             THEN LeadRun(DropFirst(tok, a + 1), Digits) ELSE 0
    IN  IF b >= 1 THEN a + 1 + b ELSE 0

\* parseFloat of a match of \d+\.?\d*
parseFloat(w) ==
    LET a == LeadRun(w, Digits)
        decimals == DropFirst(w, a + 1)
    IN  Rat(DigitsValue(SubSeq(w, 1, a)) * Pow10(Len(decimals)) + DigitsValue(decimals),
            Pow10(Len(decimals)))

\* parseQuantityStr of a match of \d+\/\d+
parseQuantityStr(w) ==
    LET a == LeadRun(w, Digits)
    IN  Rat(DigitsValue(SubSeq(w, 1, a)), DigitsValue(DropFirst(w, a + 1)))

\* What is left of the string after a match of n characters of its first
\* token followed by \s*.
After(ts, n) ==
    IF Len(ts[1]) > n THEN <<DropFirst(ts[1], n)>> \o Tail(ts) ELSE SkipBlanks(Tail(ts))

UnicodeFraction(ts) ==
    {f \in UNICODE_FRACTIONS : ts # <<>> /\ ts[1] # Empty /\ ts[1][1] = f[1]}

\* the quantity and the remainder after the four quantity patterns
ParseQuantity(text) ==
    LET second == SkipBlanks(Tail(text))
        mixedMatch == /\ LeadRun(text[1], Digits) = Len(text[1])
                      /\ second # <<>>
                      /\ FractionLen(second[1]) > 0
        fracLen == FractionLen(text[1])
        numLen == NumberLen(text[1])
        afterNum == After(text, numLen)
    IN  IF text = <<>> \/ text[1] = Empty
        THEN [quantity |-> Zero, remainder |-> text]
        ELSE IF mixedMatch
        THEN [quantity |-> RatAdd(parseFloat(text[1]),
                                  parseQuantityStr(SubSeq(second[1], 1, FractionLen(second[1])))),
              remainder |-> After(second, FractionLen(second[1]))]
        ELSE IF fracLen > 0
        THEN [quantity |-> parseQuantityStr(SubSeq(text[1], 1, fracLen)),
              remainder |-> After(text, fracLen)]
        ELSE IF numLen > 0
        THEN IF UnicodeFraction(afterNum) # {}
             THEN LET f == CHOOSE f \in UnicodeFraction(afterNum) : TRUE
                  IN  [quantity |-> RatAdd(parseFloat(SubSeq(text[1], 1, numLen)),
                                           Rat(f[2], f[3])),
                       remainder |-> After(afterNum, 1)]
             ELSE [quantity |-> parseFloat(SubSeq(text[1], 1, numLen)),
                   remainder |-> afterNum]
        ELSE IF UnicodeFraction(text) # {}
        THEN LET f == CHOOSE f \in UnicodeFraction(text) : TRUE
             IN  [quantity |-> Rat(f[2], f[3]), remainder |-> After(text, 1)]
        ELSE [quantity |-> Zero, remainder |-> text]

\* the unit pattern: one of the unit words, an optional ".", then a blank or
\* the end of the string
UnitOf(tok) ==
    IF EndsWith(tok, <<".">>) THEN DropLast(tok, 1) ELSE tok
NormalizeUnit(unit) ==
    IF \E p \in UNIT_NORMALIZE : p[1] = unit
    THEN (CHOOSE p \in UNIT_NORMALIZE : p[1] = unit)[2]
    ELSE unit
ParseUnit(remainder) ==
    LET rest == SkipBlanks(Tail(remainder))
    IN  IF remainder # <<>> /\ UnitOf(remainder[1]) \in UnitWords
        THEN [unit |-> NormalizeUnit(UnitOf(remainder[1])),
              remainder |-> IF Len(rest) >= 2 /\ rest[1] = <<"o", "f">>
                            THEN Trim(Tail(rest)) ELSE rest]
        ELSE [unit |-> Empty, remainder |-> remainder]

parseIngredient(rawInput) ==
    LET raw == Trim(rawInput)
        text == Trim(Split(removeParentheticals(Join(raw))))
        q == ParseQuantity(text)
        u == ParseUnit(q.remainder)
        name == IF Join(Trim(u.remainder)) = <<>> THEN raw ELSE Trim(u.remainder)
    IN  IF Join(raw) = <<>>
        THEN [name |-> <<>>, quantity |-> Zero, unit |-> Empty, category |-> "other"]
        ELSE [name |-> name,
              quantity |-> IF q.quantity = Zero THEN One ELSE q.quantity,
              unit |-> u.unit,
              category |-> categorizeIngredient(name)]


\* ---- generateShoppingList ----
\* planData is kept in the order of Object.keys: the sequence of its days,
\* each day the sequence of the recipe ids of its slots (NullId for null).
RECURSIVE Concat(_)
Concat(seqs) == IF seqs = <<>> THEN <<>> ELSE seqs[1] \o Concat(Tail(seqs))

\* the [ingredient, scale] pairs of one slot
ScaledOfSlot(recipeId, recipes) ==
    IF recipeId = NullId \/ recipeId \notin DOMAIN recipes THEN <<>>
    ELSE LET recipe == recipes[recipeId]
             servings == IF recipe.servings = 0 THEN 1 ELSE recipe.servings
         IN  [i \in DOMAIN recipe.ingredients |->
                 <<recipe.ingredients[i], Rat(1, servings)>>]

ScaledIngredients(planData, recipes) ==
    Concat([d \in DOMAIN planData |->
               Concat([s \in DOMAIN planData[d] |->
                          ScaledOfSlot(planData[d][s], recipes)])])

NoAggregate == [key \in {} |-> [quantity |-> Zero, unit |-> Empty, category |-> "other"]]

\* aggregated[key] without the scale of the recipe
AggregateEntryUnscaled(existing, parsed, scale) ==
    [quantity |-> RatAdd(existing.quantity, RatMul(parsed.quantity, One)),
     unit |-> IF existing.unit = Empty /\ parsed.unit # Empty
              THEN parsed.unit ELSE existing.unit,
     category |-> IF existing.category = "other" /\ parsed.category # "other"
                  THEN parsed.category ELSE existing.category]

\* aggregated[key] after one more ingredient
AggregateEntry(existing, parsed, scale) ==
    [quantity |-> RatAdd(existing.quantity, RatMul(parsed.quantity, scale)),
     unit |-> IF existing.unit = Empty /\ parsed.unit # Empty
              THEN parsed.unit ELSE existing.unit,
     category |-> IF existing.category = "other" /\ parsed.category # "other"
                  THEN parsed.category ELSE existing.category]

\* aggregated after one more ingredient with the given key: an empty key
\* and a key of SKIP_INGREDIENTS are skipped
AddUnderKey(aggregated, parsed, scale, key) ==
    IF key # <<>> /\ key \notin SKIP_INGREDIENTS
    THEN [k \in DOMAIN aggregated \cup {key} |->
             IF k = key
             THEN AggregateEntry(IF key \in DOMAIN aggregated THEN aggregated[key]
                                 ELSE [quantity |-> Zero, unit |-> Empty,
                                       category |-> "other"],
                                 parsed, scale)
             ELSE aggregated[k]]
    ELSE aggregated

\* key = normalizeName(parsed.name)
AddParsed(aggregated, parsed, scale) ==
    AddUnderKey(aggregated, parsed, scale, normalizeName(parsed.name))

\* for (const [rawIngredient, scale] of scaledIngredients)
RECURSIVE Aggregate(_, _)
Aggregate(list, aggregated) ==
    IF list = <<>> THEN aggregated
    ELSE Aggregate(Tail(list),
                   AddParsed(aggregated, parseIngredient(list[1][1]), list[1][2]))

\* Object.keys(aggregated).sort()
RECURSIVE SortKeys(_)
SortKeys(keys) ==
    IF keys = {} THEN <<>>
    ELSE LET least == CHOOSE k \in keys :
                          \A o \in keys \ {k} : StringLess(Join(k), Join(o))
         IN  <<least>> \o SortKeys(keys \ {least})

\* the items of the sorted keys
ItemsOf(aggregated, sortedKeys) ==
    [i \in DOMAIN sortedKeys |->
        [name |-> sortedKeys[i],
         quantity |-> RoundHundredths(aggregated[sortedKeys[i]].quantity),
         unit |-> aggregated[sortedKeys[i]].unit,
         category |-> aggregated[sortedKeys[i]].category]]

SortedItems(aggregated) == ItemsOf(aggregated, SortKeys(DOMAIN aggregated))

generateShoppingList(planData, recipes) ==
    SortedItems(Aggregate(ScaledIngredients(planData, recipes), NoAggregate))

\* ---- the shopping list of a plan ----
MaxMeals == 3

\* The recipes of the database, by id.
ShoppingRecipes ==
    [id \in {"1", "2", "3"} |->
        CASE id = "1" -> [servings |-> 2,
                          ingredients |-> <<<<<<"2">>, <<"c", "u", "p", "s">>, <<"m", "i", "l", "k">>>>,
                                            <<<<"1">>, <<"s", "t", "a", "l", "k">>, <<"c", "e", "l", "e", "r", "y", ",">>, <<"d", "i", "c", "e", "d">>>>,
                                            <<<<"s", "a", "l", "t">>, <<"a", "n", "d">>, <<"p", "e", "p", "p", "e", "r">>, <<"t", "o">>, <<"t", "a", "s", "t", "e">>>>>>]
          [] id = "2" -> [servings |-> 3,
                          ingredients |-> <<<<<<"1">>, <<"t", "b", "s", "p">>, <<"m", "i", "l", "k">>>>,
                                            <<<<"g", "r", "o", "u", "n", "d">>, <<"c", "u", "m", "i", "n">>>>,
                                            <<<<"2">>, <<"c", "u", "p", "s">>>>>>]
          [] id = "3" -> [servings |-> 1,
                          ingredients |-> <<<<<<"1">>, <<"1", "/", "2">>, <<"t", "s", "p">>, <<"c", "u", "m", "i", "n">>>>,
                                            <<<<"2">>, <<"s", "t", "a", "l", "k", "s">>, <<"o", "f">>, <<"c", "e", "l", "e", "r", "y">>, <<"(", "l", "a", "r", "g", "e", ")">>>>,
                                            <<<<"i", "c", "e">>, <<"c", "u", "b", "e", "s">>>>>>]]

\* meal.recipe?.id ?? null of a slot: a recipe of the database, null, or a
\* recipe that is no longer there.
SlotValues == {"1", "2", "3", NullId, "9"}

\* The plans of at most MaxMeals (day, slot) pairs: the slot values in
\* traversal order and the places where a new day starts.
RECURSIVE DaysOf(_, _)
DaysOf(values, starts) ==
    IF values = <<>> THEN <<>>
    ELSE LET n == IF \E i \in starts : TRUE
                  THEN (CHOOSE i \in starts : \A j \in starts : i <= j) - 1
                  ELSE Len(values)
         IN  <<SubSeq(values, 1, n)>>
             \o DaysOf(DropFirst(values, n), {i - n : i \in starts} \ {1})
ShoppingPlans ==
    UNION {{DaysOf(values, starts) : values \in [1..n -> SlotValues],
                                     starts \in SUBSET (2..n)} : n \in 1..MaxMeals}

ShoppingIdle == UNCHANGED <<syncVars, planVars, solverVars, rr, rc>>

\* handleSelectPlan of the generator screen: recipesById holds every recipe
HandleSelectPlanShopping ==
    /\ sh.pc = "plan"
    /\ sh.screen = "generate"
    /\ sh' = [sh EXCEPT !.pc = "listed",
                        !.items = generateShoppingList(sh.planData, ShoppingRecipes)]
    /\ ShoppingIdle

\* the shopping tab: recipesById holds the recipes getRecipesByIds finds
LoadShoppingList ==
    /\ sh.pc = "plan"
    /\ sh.screen = "shopping"
    /\ LET recipeIds == UNION {Range(sh.planData[d]) : d \in DOMAIN sh.planData}
           recipesById == [id \in recipeIds \cap DOMAIN ShoppingRecipes |->
                              ShoppingRecipes[id]]
       IN  sh' = [sh EXCEPT !.pc = "listed",
                            !.items = generateShoppingList(sh.planData, recipesById)]
    /\ ShoppingIdle

InitShopping ==
    /\ clock = 1 /\ local = EmptyTable /\ server = EmptyTable
    /\ serverToken = FALSE /\ lastSyncAt = NULL
    /\ prefs = "p1" /\ serverPrefs = EmptyPrefs
    /\ pc = "idle" /\ lastSync = NULL /\ toPull = <<>> /\ localChanges = <<>>
    /\ result = EmptyResult /\ touched = {} /\ remoteCalls = 0 /\ runs = 0
    /\ envBudget = 0 /\ hist = NoHistory
    /\ mealPlans = <<>> /\ planPc = "idle" /\ planArg = 0
    /\ sv = [pc |-> "off"]
    /\ rr = [pc |-> "off"]
    /\ rc = [pc |-> "off"]
    /\ \E planData \in ShoppingPlans, screen \in {"generate", "shopping"} :
          sh = [pc |-> "plan", screen |-> screen, planData |-> planData, items |-> <<>>]

ShoppingNext ==
    \/ HandleSelectPlanShopping
    \/ LoadShoppingList

SpecShopping == InitShopping /\ [][ShoppingNext]_vars


\* ---- claims on the shopping list ----
Reordered(seq) ==
    {[i \in DOMAIN seq |-> seq[p[i]]] : p \in Permutations(DOMAIN seq)}

\* planData with its days, and the slots of every day, in another key order
Traversals(planData) ==
    {q \in [DOMAIN planData -> UNION {Reordered(planData[d]) : d \in DOMAIN planData}] :
        \E p \in Permutations(DOMAIN planData) :
            \A d \in DOMAIN planData : q[d] \in Reordered(planData[p[d]])}

ListingRecipes ==
    [id \in (UNION {Range(sh.planData[d]) : d \in DOMAIN sh.planData})
                \cap DOMAIN ShoppingRecipes |-> ShoppingRecipes[id]]

\* C16 (P7): the shopping list of a plan is the same, in the quantity, the
\* unit and the category of every name, for every order in which the days and
\* the slots of the plan are traversed.
C16_TraversalCommutes ==
    sh.pc = "listed" =>
        \A planData \in Traversals(sh.planData) :
            generateShoppingList(planData, ListingRecipes) = sh.items

\* the (day, slot, ingredient) places of the plan whose recipe is known
Occurrences ==
    {o \in (DOMAIN sh.planData) \X (1..MaxMeals) \X (1..3) :
        /\ o[2] \in DOMAIN sh.planData[o[1]]
        /\ sh.planData[o[1]][o[2]] \in DOMAIN ShoppingRecipes
        /\ o[3] \in DOMAIN ShoppingRecipes[sh.planData[o[1]][o[2]]].ingredients}
RecipeAt(o) == ShoppingRecipes[sh.planData[o[1]][o[2]]]
ParsedAt(o) == parseIngredient(RecipeAt(o).ingredients[o[3]])
KeyAt(o) == normalizeName(ParsedAt(o).name)
RECURSIVE SumOver(_)
SumOver(occ) ==
    IF occ = {} THEN Zero
    ELSE LET o == CHOOSE o \in occ : TRUE
         IN  RatAdd(RatMul(ParsedAt(o).quantity, <<1, RecipeAt(o).servings>>),
                    SumOver(occ \ {o}))
ListedNames == {KeyAt(o) : o \in Occurrences} \ ({<<>>} \cup SKIP_INGREDIENTS)

====
